---- MODULE Spec2Model ----
(***************************************************************************)
(* Vehicle price estimation engine of backend/price_service.py.            *)
(*                                                                         *)
(* Python values are represented as follows.                               *)
(*   str    a TLA+ string; None is the reserved value None                 *)
(*   int    an integer; an Optional[int] is <<>> (None) or <<n>>           *)
(*   float  a fixed-point integer: a money amount counts 1/MoneyScale of   *)
(*          a dollar, a dimensionless factor counts 1/FactorScale          *)
(*   dict   the sequence of its <<key, value>> pairs in insertion order    *)
(*                                                                         *)
(* vehicles is the vehicles table of the database: its rows and the last   *)
(* id its AUTOINCREMENT sequence has given out.                            *)
(*                                                                         *)
(* msrp_database and category_msrp are the module globals MSRP_DATABASE    *)
(* and CATEGORY_MSRP as they stand while the process runs.                 *)
(*                                                                         *)
(* The HTTP handlers are plain functions, which the server runs in the     *)
(* threads of a pool: workers maps each busy thread to the call it is      *)
(* making, negotiation_threads and negotiation_messages are the two        *)
(* negotiation tables of the database. db_lock is whether a connection     *)
(* that was never closed holds the write lock of the database.             *)
(***************************************************************************)
EXTENDS Integers, Sequences, FiniteSets, TLC

VARIABLES pc, op, args, now, ret, frame, vehicles, msrp_database, category_msrp, workers, negotiation_threads, negotiation_messages, db_lock

vars == <<pc, op, args, now, ret, frame, vehicles, msrp_database, category_msrp, workers, negotiation_threads, negotiation_messages, db_lock>>

\* The module globals of price_service.py.
tables == <<msrp_database, category_msrp>>

\* The negotiation tables and the write lock.
negotiation == <<negotiation_threads, negotiation_messages, db_lock>>

\* The thread pool and what the chat handler works on.
pool == <<workers, negotiation>>

\* The variables of a single call made on its own.
single == <<pc, op, args, ret, frame>>

(***************************************************************************)
(* Bounds of the checked input space.                                      *)
(***************************************************************************)
MinYear == 2007
MaxYear == 2027
MaxNow == 2026
MaxAge == 90
MaxAdjAge == 12
PoolSize == 2
AntiqueYear == 1935

(***************************************************************************)
(* Fixed-point arithmetic.                                                 *)
(***************************************************************************)
MoneyScale == 10^4
FactorScale == 10^9

Money(dollars) == dollars * MoneyScale

\* The factor p/100.
Pct(p) == p * (FactorScale \div 100)

Max(a, b) == IF a >= b THEN a ELSE b
Min(a, b) == IF a <= b THEN a ELSE b
Abs(a) == IF a < 0 THEN -a ELSE a

\* n * f for an integer n and a factor f > 0. A float product cannot leave the
\* 32 bits of the fixed-point representation; a product beyond +-2.0 is carried
\* as +-2.0.
SatMul(n, f) ==
    LET most == (2 * FactorScale) \div f
    IN  IF n > most THEN 2 * FactorScale
        ELSE IF n < -most THEN -(2 * FactorScale)
        ELSE n * f

\* floor(a * n / d), computed without leaving 32 bits.
MulDiv(a, n, d) == (a \div d) * n + ((a % d) * n) \div d

\* floor((a * limb + carry) / 1000) for a limb in 0..2147.
MulStep(a, limb, carry) ==
    MulDiv(a, limb, 1000) + ((((a % 1000) * limb) % 1000) + carry) \div 1000

\* a * f for a factor f: floor(a * f / FactorScale), one base-1000 limb of f at a time.
FMul(a, f) ==
    LET f0 == f % 1000
        f1 == (f \div 1000) % 1000
        f2 == f \div 1000000
        t0 == MulStep(a, f0, 0)
        t1 == MulStep(a, f1, t0)
    IN  MulStep(a, f2, t1)

\* Python's round(x, ndigits) on a float: to the nearest multiple of unit, ties to even.
RoundTo(x, unit) ==
    LET q == x \div unit
        r == x % unit
    IN  IF 2 * r > unit THEN (q + 1) * unit
        ELSE IF 2 * r < unit THEN q * unit
        ELSE IF q % 2 = 0 THEN q * unit ELSE (q + 1) * unit

\* round(x, ndigits) of a float product. The fixed-point product is exact to a
\* few units while the float carries its own rounding error, so a product on
\* (or within a few units of) a decimal tie may lie on either side of it:
\* tie_up says on which.
RoundFloat(x, unit, tie_up) ==
    LET q == x \div unit
        r == x % unit
    IN  IF Abs(2 * r - unit) <= 16 THEN (IF tie_up THEN q + 1 ELSE q) * unit
        ELSE RoundTo(x, unit)

\* base ** n for a float base = num/den and an integer exponent n (either sign).
RECURSIVE FPow(_, _, _)
FPow(num, den, n) ==
    IF n = 0 THEN FactorScale
    ELSE IF n < 0 THEN FPow(den, num, -n)
    ELSE IF n % 2 = 1 THEN MulDiv(FPow(num, den, n - 1), num, den)
    ELSE LET h == FPow(num, den, n \div 2) IN FMul(h, h)

(***************************************************************************)
(* Strings.                                                                *)
(***************************************************************************)
None == "<None>"

\* Python truthiness of an Optional[str].
Truthy(s) == s # None /\ s # ""

UpperLetters == "ABCDEFGHIJKLMNOPQRSTUVWXYZ"
LowerLetters == "abcdefghijklmnopqrstuvwxyz"

CharAt(s, i) == SubSeq(s, i, i)

ToLowerMap ==
    [c \in {CharAt(UpperLetters, i) : i \in 1..26} |->
        CharAt(LowerLetters, CHOOSE i \in 1..26 : CharAt(UpperLetters, i) = c)]

ToUpperMap ==
    [c \in {CharAt(LowerLetters, i) : i \in 1..26} |->
        CharAt(UpperLetters, CHOOSE i \in 1..26 : CharAt(LowerLetters, i) = c)]

IsCased(c) == c \in DOMAIN ToLowerMap \/ c \in DOMAIN ToUpperMap
LowerChar(c) == IF c \in DOMAIN ToLowerMap THEN ToLowerMap[c] ELSE c
UpperChar(c) == IF c \in DOMAIN ToUpperMap THEN ToUpperMap[c] ELSE c

\* str.lower()
RECURSIVE lower(_)
lower(s) ==
    IF s = "" THEN "" ELSE LowerChar(CharAt(s, 1)) \o lower(SubSeq(s, 2, Len(s)))

\* str.upper()
RECURSIVE upper(_)
upper(s) ==
    IF s = "" THEN "" ELSE UpperChar(CharAt(s, 1)) \o upper(SubSeq(s, 2, Len(s)))

\* str.title(): a cased character is upper-cased after an uncased one (or at
\* the start) and lower-cased after a cased one.
RECURSIVE TitleFrom(_, _)
TitleFrom(s, prev_cased) ==
    IF s = "" THEN ""
    ELSE LET c == CharAt(s, 1)
         IN  (IF ~IsCased(c) THEN c
              ELSE IF prev_cased THEN LowerChar(c) ELSE UpperChar(c))
             \o TitleFrom(SubSeq(s, 2, Len(s)), IsCased(c))

title(s) == TitleFrom(s, FALSE)

\* str.strip()
RECURSIVE lstrip(_)
lstrip(s) ==
    IF s # "" /\ CharAt(s, 1) = " " THEN lstrip(SubSeq(s, 2, Len(s))) ELSE s

RECURSIVE rstrip(_)
rstrip(s) ==
    IF s # "" /\ CharAt(s, Len(s)) = " " THEN rstrip(SubSeq(s, 1, Len(s) - 1)) ELSE s

strip(s) == rstrip(lstrip(s))

DigitChars == "0123456789"

IsDigits(s) ==
    \A i \in 1..Len(s) : \E d \in 1..10 : CharAt(s, i) = CharAt(DigitChars, d)

DigitValue(c) == (CHOOSE d \in 1..10 : CharAt(DigitChars, d) = c) - 1

\* The number written by a string of digits.
RECURSIVE ToNat(_)
ToNat(s) ==
    IF s = "" THEN 0
    ELSE ToNat(SubSeq(s, 1, Len(s) - 1)) * 10 + DigitValue(CharAt(s, Len(s)))

\* Python's "a in b" on strings.
Contains(a, b) ==
    \E i \in 1..(Len(b) - Len(a) + 1) : SubSeq(b, i, i + Len(a) - 1) = a

\* format(n, ","): a non-negative integer with thousands separators.
RECURSIVE FormatThousands(_)
FormatThousands(n) ==
    IF n < 1000 THEN ToString(n)
    ELSE LET r == n % 1000
         IN  FormatThousands(n \div 1000) \o ","
             \o (IF r < 10 THEN "00" ELSE IF r < 100 THEN "0" ELSE "") \o ToString(r)

\* format(x, ".2f") of a non-negative factor.
FormatFixed2(f) ==
    LET h == RoundTo(f, FactorScale \div 100) \div (FactorScale \div 100)
        frac == h % 100
    IN  ToString(h \div 100) \o "." \o (IF frac < 10 THEN "0" ELSE "") \o ToString(frac)

(***************************************************************************)
(* Dictionaries.                                                           *)
(***************************************************************************)
DictHas(d, k) == \E i \in 1..Len(d) : d[i][1] = k

\* dict.get(k, default)
DictGet(d, k, default) ==
    IF DictHas(d, k) THEN d[CHOOSE i \in 1..Len(d) : d[i][1] = k][2] ELSE default

\* dict.keys(), in iteration order.
DictKeys(d) == [i \in 1..Len(d) |-> d[i][1]]

(***************************************************************************)
(* Reference data.                                                         *)
(***************************************************************************)
MSRP_DATABASE ==
  << <<"TOYOTA", <<
       <<"Camry", <<
              <<2024, 28855>>, <<2023, 27415>>, <<2022, 26420>>, <<2021, 25965>>, <<2020, 25250>>,
              <<2019, 25250>>, <<2018, 24380>>, <<2017, 24380>>, <<2016, 23905>>, <<2015, 23795>>,
              <<2014, 23235>>, <<2013, 23070>>, <<2012, 22975>>, <<2011, 22745>>, <<2010, 21800>> >> >>,
       <<"Corolla", <<
              <<2024, 22995>>, <<2023, 22195>>, <<2022, 21145>>, <<2021, 20425>>, <<2020, 20430>>,
              <<2019, 19990>>, <<2018, 19510>>, <<2017, 19365>>, <<2016, 18335>>, <<2015, 17560>>,
              <<2014, 17610>>, <<2013, 17230>>, <<2012, 17230>>, <<2011, 16230>>, <<2010, 16230>> >> >>,
       <<"RAV4", <<
              <<2024, 30535>>, <<2023, 29790>>, <<2022, 28275>>, <<2021, 27740>>, <<2020, 27740>>,
              <<2019, 26545>>, <<2018, 26150>>, <<2017, 25350>>, <<2016, 25250>>, <<2015, 25035>>,
              <<2014, 24410>>, <<2013, 24530>>, <<2012, 23460>>, <<2011, 23260>>, <<2010, 22715>> >> >>,
       <<"Highlander", <<
              <<2024, 39520>>, <<2023, 38620>>, <<2022, 36620>>, <<2021, 36620>>, <<2020, 35720>>,
              <<2019, 35540>>, <<2018, 32248>>, <<2017, 31930>>, <<2016, 31590>>, <<2015, 30690>> >> >>,
       <<"Tacoma", <<
              <<2024, 31500>>, <<2023, 29515>>, <<2022, 28410>>, <<2021, 27595>>, <<2020, 27395>>,
              <<2019, 26950>>, <<2018, 26150>>, <<2017, 25300>>, <<2016, 24300>>, <<2015, 23975>> >> >>
     >> >>,
     <<"HONDA", <<
       <<"Civic", <<
              <<2024, 24950>>, <<2023, 24650>>, <<2022, 23645>>, <<2021, 22695>>, <<2020, 21650>>,
              <<2019, 21250>>, <<2018, 20650>>, <<2017, 20440>>, <<2016, 19975>>, <<2015, 19490>>,
              <<2014, 19190>>, <<2013, 19155>>, <<2012, 18905>>, <<2011, 18655>>, <<2010, 16355>> >> >>,
       <<"Accord", <<
              <<2024, 29610>>, <<2023, 28890>>, <<2022, 27615>>, <<2021, 26520>>, <<2020, 25970>>,
              <<2019, 24615>>, <<2018, 24445>>, <<2017, 23980>>, <<2016, 23555>>, <<2015, 23225>>,
              <<2014, 22920>>, <<2013, 22670>>, <<2012, 22580>>, <<2011, 22280>>, <<2010, 22005>> >> >>,
       <<"CR-V", <<
              <<2024, 31450>>, <<2023, 31110>>, <<2022, 29615>>, <<2021, 27950>>, <<2020, 26795>>,
              <<2019, 25895>>, <<2018, 25350>>, <<2017, 25245>>, <<2016, 24845>>, <<2015, 24595>>,
              <<2014, 24150>>, <<2013, 23875>>, <<2012, 23595>>, <<2011, 23195>>, <<2010, 22320>> >> >>
     >> >>,
     <<"FORD", <<
       <<"F-150", <<
              <<2024, 36965>>, <<2023, 35575>>, <<2022, 32920>>, <<2021, 30635>>, <<2020, 29290>>,
              <<2019, 29250>>, <<2018, 28675>>, <<2017, 28150>>, <<2016, 27705>>, <<2015, 27285>>,
              <<2014, 25800>>, <<2013, 25520>>, <<2012, 24700>>, <<2011, 23750>>, <<2010, 22840>> >> >>,
       <<"Escape", <<
              <<2024, 30495>>, <<2023, 29600>>, <<2022, 28475>>, <<2021, 27755>>, <<2020, 26080>>,
              <<2019, 25200>>, <<2018, 24645>>, <<2017, 24645>>, <<2016, 24145>>, <<2015, 24075>> >> >>,
       <<"Explorer", <<
              <<2024, 38710>>, <<2023, 37645>>, <<2022, 35745>>, <<2021, 33745>>, <<2020, 33860>>,
              <<2019, 33860>>, <<2018, 32565>>, <<2017, 32575>>, <<2016, 32315>>, <<2015, 31595>> >> >>,
       <<"Mustang", <<
              <<2024, 32515>>, <<2023, 30920>>, <<2022, 28545>>, <<2021, 27770>>, <<2020, 27155>>,
              <<2019, 26670>>, <<2018, 26185>>, <<2017, 26185>>, <<2016, 25185>>, <<2015, 24425>> >> >>
     >> >>,
     <<"CHEVROLET", <<
       <<"Silverado", <<
              <<2024, 37645>>, <<2023, 36300>>, <<2022, 33500>>, <<2021, 30195>>, <<2020, 29795>>,
              <<2019, 29795>>, <<2018, 29285>>, <<2017, 28985>>, <<2016, 28100>>, <<2015, 27575>> >> >>,
       <<"Equinox", <<
              <<2024, 30495>>, <<2023, 28600>>, <<2022, 28100>>, <<2021, 27400>>, <<2020, 25800>>,
              <<2019, 25200>>, <<2018, 24575>>, <<2017, 24575>>, <<2016, 23400>>, <<2015, 23100>> >> >>,
       <<"Malibu", <<
              <<2024, 26200>>, <<2023, 25100>>, <<2022, 24100>>, <<2021, 23900>>, <<2020, 22590>>,
              <<2019, 22555>>, <<2018, 22555>>, <<2017, 22555>>, <<2016, 22500>>, <<2015, 22465>> >> >>
     >> >>,
     <<"HYUNDAI", <<
       <<"Elantra", <<
              <<2024, 22865>>, <<2023, 22065>>, <<2022, 20665>>, <<2021, 20665>>, <<2020, 20245>>,
              <<2019, 18185>>, <<2018, 17785>>, <<2017, 17785>>, <<2016, 17785>>, <<2015, 18060>> >> >>,
       <<"Tucson", <<
              <<2024, 30550>>, <<2023, 29550>>, <<2022, 27750>>, <<2021, 25350>>, <<2020, 24450>>,
              <<2019, 24300>>, <<2018, 23700>>, <<2017, 23600>>, <<2016, 23595>>, <<2015, 23495>> >> >>,
       <<"Sonata", <<
              <<2024, 28990>>, <<2023, 28690>>, <<2022, 24150>>, <<2021, 24150>>, <<2020, 23600>>,
              <<2019, 23100>>, <<2018, 22935>>, <<2017, 22935>>, <<2016, 22635>>, <<2015, 22100>> >> >>
     >> >>,
     <<"NISSAN", <<
       <<"Altima", <<
              <<2024, 28340>>, <<2023, 27510>>, <<2022, 25290>>, <<2021, 25290>>, <<2020, 24650>>,
              <<2019, 24650>>, <<2018, 24150>>, <<2017, 24025>>, <<2016, 23775>>, <<2015, 23365>> >> >>,
       <<"Rogue", <<
              <<2024, 30630>>, <<2023, 29850>>, <<2022, 28390>>, <<2021, 27530>>, <<2020, 27110>>,
              <<2019, 26260>>, <<2018, 25820>>, <<2017, 25550>>, <<2016, 24960>>, <<2015, 24220>> >> >>,
       <<"Sentra", <<
              <<2024, 21740>>, <<2023, 20810>>, <<2022, 20050>>, <<2021, 19990>>, <<2020, 19310>>,
              <<2019, 19090>>, <<2018, 17790>>, <<2017, 17790>>, <<2016, 17600>>, <<2015, 17260>> >> >>
     >> >>,
     <<"BMW", <<
       <<"3 Series", <<
              <<2024, 44450>>, <<2023, 43800>>, <<2022, 42800>>, <<2021, 41950>>, <<2020, 41250>>,
              <<2019, 40250>>, <<2018, 34950>>, <<2017, 34750>>, <<2016, 34350>>, <<2015, 33950>> >> >>,
       <<"5 Series", <<
              <<2024, 57400>>, <<2023, 56000>>, <<2022, 55400>>, <<2021, 54200>>, <<2020, 53400>>,
              <<2019, 53400>>, <<2018, 52650>>, <<2017, 52195>>, <<2016, 51400>>, <<2015, 51200>> >> >>,
       <<"X3", <<
              <<2024, 47500>>, <<2023, 46200>>, <<2022, 44950>>, <<2021, 43700>>, <<2020, 42950>>,
              <<2019, 42650>>, <<2018, 42650>>, <<2017, 39950>>, <<2016, 39950>>, <<2015, 39950>> >> >>
     >> >>,
     <<"MERCEDES-BENZ", <<
       <<"C-Class", <<
              <<2024, 46250>>, <<2023, 45250>>, <<2022, 44600>>, <<2021, 43250>>, <<2020, 42500>>,
              <<2019, 41400>>, <<2018, 41400>>, <<2017, 40250>>, <<2016, 39500>>, <<2015, 39400>> >> >>,
       <<"E-Class", <<
              <<2024, 58050>>, <<2023, 56750>>, <<2022, 55300>>, <<2021, 54250>>, <<2020, 54050>>,
              <<2019, 53500>>, <<2018, 53500>>, <<2017, 53075>>, <<2016, 52650>>, <<2015, 52325>> >> >>
     >> >>,
     <<"TESLA", <<
       <<"Model 3", <<
              <<2024, 38990>>, <<2023, 40240>>, <<2022, 46990>>, <<2021, 39990>>, <<2020, 37990>>,
              <<2019, 38990>>, <<2018, 35000>> >> >>,
       <<"Model Y", <<
              <<2024, 44990>>, <<2023, 47490>>, <<2022, 62990>>, <<2021, 53990>>, <<2020, 49990>> >> >>
     >> >> >>

\* Category-based MSRP fallback (dollars).
CATEGORY_MSRP ==
    << <<"sedan", 28000>>, <<"suv", 35000>>, <<"truck", 38000>>,
       <<"coupe", 32000>>, <<"hatchback", 24000>>, <<"van", 35000>>,
       <<"convertible", 38000>>, <<"wagon", 30000>>, <<"default", 30000>> >>

(***************************************************************************)
(* Depreciation engine.                                                    *)
(***************************************************************************)
\* Year-by-year depreciation rates, in percent.
annual_rates == <<20, 15, 10, 10, 10, 7, 7, 5, 5, 5>>

\* remaining after the first n iterations of the loop over annual_rates.
RECURSIVE RemainingAfter(_)
RemainingAfter(n) ==
    IF n = 0 THEN FactorScale
    ELSE MulDiv(RemainingAfter(n - 1), 100 - annual_rates[n], 100)

\* The factor without its floor.
_get_depreciation_factor_NoFloor(vehicle_age) ==
    IF vehicle_age <= 0 THEN FactorScale
    ELSE LET looped == RemainingAfter(Min(vehicle_age, Len(annual_rates)))
         IN  IF vehicle_age > Len(annual_rates)
             THEN FMul(looped, FPow(97, 100, vehicle_age - Len(annual_rates)))
             ELSE looped

\* The 3% years counted from year 1, not from year 11.
_get_depreciation_factor_AllExtra(vehicle_age) ==
    IF vehicle_age <= 0 THEN FactorScale
    ELSE LET looped == RemainingAfter(Min(vehicle_age, Len(annual_rates)))
             remaining ==
                 IF vehicle_age > Len(annual_rates)
                 THEN FMul(looped, FPow(97, 100, vehicle_age))
                 ELSE looped
         IN  Max(remaining, Pct(5))

_get_depreciation_factor(vehicle_age) ==
    IF vehicle_age <= 0 THEN FactorScale
    ELSE LET looped == RemainingAfter(Min(vehicle_age, Len(annual_rates)))
             remaining ==
                 IF vehicle_age > Len(annual_rates)
                 THEN FMul(looped, FPow(97, 100, vehicle_age - Len(annual_rates)))
                 ELSE looped
         IN  Max(remaining, Pct(5))

\* The adjustment clamped to +-30% instead of +-15%.
_mileage_adjustment_Cap30(mileage, vehicle_age) ==
    LET age == IF vehicle_age <= 0 THEN 1 ELSE vehicle_age
        expected_mileage == age * 12000
        mileage_diff == mileage - expected_mileage
        adjustment == -SatMul(mileage_diff, Pct(3) \div 10000)
        cap == Pct(30)
    IN  FactorScale + Max(-cap, Min(cap, adjustment))

_mileage_adjustment(mileage, vehicle_age) ==
    LET age == IF vehicle_age <= 0 THEN 1 ELSE vehicle_age
        expected_mileage == age * 12000
        mileage_diff == mileage - expected_mileage
        adjustment == -SatMul(mileage_diff, Pct(3) \div 10000)
        cap == Pct(15)
    IN  FactorScale + Max(-cap, Min(cap, adjustment))

\* The lookup without lower-casing the condition.
_condition_multiplier_CaseSensitive(condition) ==
    LET multipliers ==
            << <<"excellent", Pct(110)>>,
               <<"good", FactorScale>>,
               <<"fair", Pct(88)>>,
               <<"poor", Pct(72)>> >>
    IN  DictGet(multipliers, condition, FactorScale)

_condition_multiplier(condition) ==
    LET multipliers ==
            << <<"excellent", Pct(110)>>,
               <<"good", FactorScale>>,
               <<"fair", Pct(88)>>,
               <<"poor", Pct(72)>> >>
    IN  DictGet(multipliers, lower(condition), FactorScale)

(***************************************************************************)
(* MSRP lookup.                                                            *)
(***************************************************************************)
\* min(keys) without the key function: the lowest key.
ClosestYear_Lowest(keys, year) ==
    keys[CHOOSE i \in 1..Len(keys) : \A j \in 1..Len(keys) : keys[i] <= keys[j]]

\* min(keys, key=lambda y: abs(y - year)): the first key, in iteration
\* order, of minimum distance.
ClosestYear(keys, year) ==
    keys[CHOOSE i \in 1..Len(keys) :
            /\ \A j \in 1..Len(keys) : Abs(keys[i] - year) <= Abs(keys[j] - year)
            /\ \A j \in 1..(i - 1) : Abs(keys[j] - year) > Abs(keys[i] - year)]

\* The fuzzy loop's condition on one database model.
FuzzyMatches(db_model, model) ==
    \/ Contains(lower(db_model), lower(model))
    \/ Contains(lower(model), lower(db_model))

\* database.get(make_upper, {}) for the table as it stands.
MakeGet(database, make) ==
    DictGet(database, IF Truthy(make) THEN strip(upper(make)) ELSE "", <<>>)

\* make_data: the models of the normalised make.
MakeData(make) == MakeGet(MSRP_DATABASE, make)

\* make_data.get(model_title, {})
ModelsGet(make_data, model) ==
    DictGet(make_data, IF Truthy(model) THEN title(strip(model)) ELSE "", <<>>)

\* model_data: the years of the normalised model under the normalised make.
ModelData(make, model) == ModelsGet(MakeData(make), model)

\* 2% of the base per year, not compounded.
Extrapolate_SimpleInterest(base_msrp, year, closest_year) ==
    FMul(Money(base_msrp), FactorScale + (year - closest_year) * Pct(2))

\* base_msrp * (1.02 ** (year - closest_year)), base_msrp in dollars.
Extrapolate(base_msrp, year, closest_year) ==
    FMul(Money(base_msrp), FPow(102, 100, year - closest_year))

\* The return of the nearest-year branch: the MSRP of closest_year carried to
\* year.
NearestYear(model_data, closest_year, year) ==
    [raised |-> "",
     msrp |-> <<Extrapolate(DictGet(model_data, closest_year, 0), year, closest_year)>>,
     source |-> "msrp_database_extrapolated_from_" \o ToString(closest_year)]

\* The return of the fuzzy loop at the entry (db_model, data) it stops at.
FuzzyEntry(db_model, data, closest_year, year) ==
    IF DictHas(data, year)
    THEN [raised |-> "",
          msrp |-> <<Money(DictGet(data, year, 0))>>,
          source |-> "msrp_database_fuzzy_" \o db_model]
    ELSE [raised |-> "",
          msrp |-> <<Extrapolate(DictGet(data, closest_year, 0), year, closest_year)>>,
          source |-> "msrp_database_fuzzy_" \o db_model \o "_extrapolated"]

\* The fuzzy loop: hits are the positions of the entries of make_data whose
\* name matches; the loop returns at the first of them.
FuzzyFirst(entry, year) ==
    FuzzyEntry(entry[1], entry[2], ClosestYear(DictKeys(entry[2]), year), year)

FuzzyLoop(make_data, hits, year) ==
    IF hits = {}
    THEN [raised |-> "", msrp |-> <<>>, source |-> "not_found"]
    ELSE FuzzyFirst(make_data[CHOOSE i \in hits : \A j \in hits : i <= j], year)

\* The body of _find_msrp once make_data and model_data are fetched.
FindIn(make_data, model_data, model, year) ==
    IF DictHas(model_data, year)
    THEN [raised |-> "", msrp |-> <<Money(DictGet(model_data, year, 0))>>,
          source |-> "msrp_database"]
    ELSE IF model_data # <<>>
    THEN NearestYear(model_data, ClosestYear(DictKeys(model_data), year), year)
    ELSE IF make_data = <<>>
    THEN [raised |-> "", msrp |-> <<>>, source |-> "not_found"]
    ELSE IF model = None
    THEN [raised |-> "AttributeError", msrp |-> <<>>, source |-> ""]
    ELSE FuzzyLoop(make_data,
                   {i \in 1..Len(make_data) : FuzzyMatches(make_data[i][1], model)},
                   year)

FindInMake(make_data, model, year) ==
    FindIn(make_data, ModelsGet(make_data, model), model, year)

\* Returns (msrp, source); msrp is <<>> for None. raised names the exception
\* that escapes, if any.
_find_msrp(make, model, year) == FindInMake(MakeData(make), model, year)

\* The first category, in the order of the table, that body_lower contains.
CategoryLoop(categories, hits) ==
    IF hits = {} THEN DictGet(categories, "default", 0)
    ELSE categories[CHOOSE i \in hits : \A j \in hits : i <= j][2]

\* The categories looked for in the text as it is written.
CategoryGet_CaseSensitive(categories, body_class) ==
    IF ~Truthy(body_class) THEN DictGet(categories, "default", 0)
    ELSE CategoryLoop(categories,
                      {i \in 1..Len(categories) :
                          Contains(categories[i][1], body_class)})

\* The body of _estimate_msrp_by_category on the table as it stands.
CategoryGet(categories, body_class) ==
    IF ~Truthy(body_class) THEN DictGet(categories, "default", 0)
    ELSE CategoryLoop(categories,
                      {i \in 1..Len(categories) :
                          Contains(categories[i][1], lower(body_class))})

_estimate_msrp_by_category(body_class) == CategoryGet(CATEGORY_MSRP, body_class)

(***************************************************************************)
(* Main estimation function.                                               *)
(***************************************************************************)
\* vehicle_age: current_year - year, floored at 0.
VehicleAge(current_year, year) ==
    IF current_year - year < 0 THEN 0 ELSE current_year - year

\* Whether "if msrp:" takes the found value.
Hit(found) == found.msrp # <<>> /\ found.msrp[1] # 0

\* The category branch leaving confidence at its initial 0.0.
Confidence_Unset(found) ==
    IF Hit(found)
    THEN IF Contains("extrapolated", found.source) THEN Pct(65)
         ELSE IF Contains("fuzzy", found.source) THEN Pct(55)
         ELSE Pct(80)
    ELSE 0

\* The confidence set by step 1 for what _find_msrp returned.
Confidence(found) ==
    IF Hit(found)
    THEN IF Contains("extrapolated", found.source) THEN Pct(65)
         ELSE IF Contains("fuzzy", found.source) THEN Pct(55)
         ELSE Pct(80)
    ELSE Pct(35)

\* The two spread multipliers exchanged.
PriceRange_SwappedSpread(base_value, tie_up) ==
    LET market_price == RoundFloat(base_value, Money(100), tie_up)
        low_price == RoundTo(MulDiv(market_price, 112, 100), Money(100))
        high_price == RoundTo(MulDiv(market_price, 88, 100), Money(100))
    IN  [market_price |-> Max(market_price, Money(500)),
         low_price |-> Max(low_price, Money(300)),
         high_price |-> Max(high_price, Money(700))]

\* The market price rounded with ndigits -1.
PriceRange_RoundTens(base_value, tie_up) ==
    LET market_price == RoundFloat(base_value, Money(10), tie_up)
        low_price == RoundTo(MulDiv(market_price, 88, 100), Money(100))
        high_price == RoundTo(MulDiv(market_price, 112, 100), Money(100))
    IN  [market_price |-> Max(market_price, Money(500)),
         low_price |-> Max(low_price, Money(300)),
         high_price |-> Max(high_price, Money(700))]

\* The spread taken off the value before rounding.
PriceRange_SpreadOfBase(base_value, tie_up) ==
    LET market_price == RoundFloat(base_value, Money(100), tie_up)
        low_price == RoundTo(MulDiv(base_value, 88, 100), Money(100))
        high_price == RoundTo(MulDiv(base_value, 112, 100), Money(100))
    IN  [market_price |-> Max(market_price, Money(500)),
         low_price |-> Max(low_price, Money(300)),
         high_price |-> Max(high_price, Money(700))]

\* Step 5 and the floors: the price range of a base value.
PriceRange(base_value, tie_up) ==
    LET market_price == RoundFloat(base_value, Money(100), tie_up)
        low_price == RoundTo(MulDiv(market_price, 88, 100), Money(100))
        high_price == RoundTo(MulDiv(market_price, 112, 100), Money(100))
    IN  [market_price |-> Max(market_price, Money(500)),
         low_price |-> Max(low_price, Money(300)),
         high_price |-> Max(high_price, Money(700))]

\* A mileage of None counted as no mileage, any number as a mileage.
HasMileage_NotNone(mileage) == mileage # <<>>

\* if mileage and mileage > 0
HasMileage(mileage) == mileage # <<>> /\ mileage[1] # 0 /\ mileage[1] > 0

\* The note of step 1; msrp_text is f"${msrp:,.0f}".
MsrpNote(found, msrp_text) ==
    IF ~Hit(found) THEN "MSRP estimated from vehicle category: " \o msrp_text
    ELSE IF Contains("extrapolated", found.source)
    THEN "MSRP extrapolated from reference data (" \o found.source \o ")"
    ELSE IF Contains("fuzzy", found.source)
    THEN "MSRP from partial model match (" \o found.source \o ")"
    ELSE "MSRP from reference database: " \o msrp_text

\* Step 1: msrp, source, confidence and the first note, from what _find_msrp
\* returned and the msrp the step settles on.
Step1(found, msrp) ==
    [msrp |-> msrp,
     source |-> IF Hit(found) THEN found.source ELSE "category_estimate",
     confidence |-> Confidence(found),
     note |-> MsrpNote(found, "$" \o FormatThousands(RoundTo(msrp, MoneyScale)
                                                     \div MoneyScale))]

\* The note of step 2.
DepNote(dep_factor, vehicle_age) ==
    "Depreciation factor: " \o FormatFixed2(dep_factor)
    \o " (age: " \o ToString(vehicle_age) \o " years)"

\* The note of step 3; expected is vehicle_age * 12000.
\* (the source's dash is U+2014)
MileageNote(mileage, expected) ==
    IF ~HasMileage(mileage) THEN "No mileage provided - using average estimate"
    ELSE (IF mileage[1] > expected THEN "Mileage above average ("
          ELSE "Mileage below average (")
         \o FormatThousands(mileage[1]) \o " vs "
         \o FormatThousands(expected) \o " expected)"

\* The condition note only under a multiplier other than 1.0.
ConditionNotes_Adjusted(condition, cond_mult) ==
    IF cond_mult # FactorScale
    THEN <<"Condition adjustment: " \o condition \o " ("
           \o FormatFixed2(cond_mult) \o "x)">>
    ELSE <<>>

\* The notes of step 4: one note unless the condition is "good".
ConditionNotes(condition, cond_mult) ==
    IF lower(condition) # "good"
    THEN <<"Condition adjustment: " \o condition \o " ("
           \o FormatFixed2(cond_mult) \o "x)">>
    ELSE <<>>

\* base_value *= mile_adj, under the test of step 3.
TimesMileage(base_value, mileage, mile_adj) ==
    IF HasMileage(mileage) THEN FMul(base_value, mile_adj) ELSE base_value

\* The locals when estimate_price returns.
Locals(step1, vehicle_age, mileage, condition, dep_factor, mile_adj, cond_mult, base_value, range) ==
    [raised |-> "",
     vehicle_age |-> vehicle_age,
     msrp |-> step1.msrp,
     source |-> step1.source,
     confidence |-> step1.confidence,
     dep_factor |-> dep_factor,
     mile_adj |-> mile_adj,
     cond_mult |-> cond_mult,
     base_value |-> base_value,
     market_price |-> range.market_price,
     low_price |-> range.low_price,
     high_price |-> range.high_price,
     notes |-> <<step1.note, DepNote(dep_factor, vehicle_age),
                 MileageNote(mileage, vehicle_age * 12000)>>
               \o ConditionNotes(condition, cond_mult)]

\* Step 5: the price range of the base value.
Step5(step1, vehicle_age, mileage, condition, dep_factor, mile_adj, cond_mult, base_value, tie_up) ==
    Locals(step1, vehicle_age, mileage, condition, dep_factor, mile_adj, cond_mult,
           base_value, PriceRange(base_value, tie_up))

\* The base value of steps 2 to 4 from the three factors.
Valued(step1, vehicle_age, mileage, condition, dep_factor, mile_adj, cond_mult, tie_up) ==
    Step5(step1, vehicle_age, mileage, condition, dep_factor, mile_adj, cond_mult,
          FMul(TimesMileage(FMul(step1.msrp, dep_factor), mileage, mile_adj), cond_mult),
          tie_up)

\* Steps 2 to 4: the three factors.
Steps2To4(step1, vehicle_age, mileage, condition, tie_up) ==
    Valued(step1, vehicle_age, mileage, condition,
           _get_depreciation_factor(vehicle_age),
           IF HasMileage(mileage) THEN _mileage_adjustment(mileage[1], vehicle_age)
           ELSE FactorScale,
           _condition_multiplier(condition),
           tie_up)

\* estimate_price once step 1 has settled on msrp.
AfterStep1(found, msrp, vehicle_age, mileage, condition, tie_up) ==
    IF found.raised # "" THEN [raised |-> found.raised]
    ELSE IF condition = None THEN [raised |-> "AttributeError"]
    ELSE Steps2To4(Step1(found, msrp), vehicle_age, mileage, condition, tie_up)

\* estimate_price after its call of _find_msrp.
AfterFind(found, vehicle_age, mileage, condition, body_class, tie_up) ==
    AfterStep1(found,
               IF Hit(found) THEN found.msrp[1]
               ELSE Money(_estimate_msrp_by_category(body_class)),
               vehicle_age, mileage, condition, tie_up)

\* The locals of estimate_price when it returns, or the exception it raises.
\* current_year is datetime.now().year; tie_up is the side of a rounding tie
\* on which the float base_value lies (see RoundFloat).
EstimateFrame(make, model, year, mileage, condition, body_class, current_year, tie_up) ==
    AfterFind(_find_msrp(make, model, year), VehicleAge(current_year, year),
              mileage, condition, body_class, tie_up)

\* The dict estimate_price returns from the frame f.
Returned(make, model, year, mileage, condition, f) ==
    IF f.raised # "" THEN [raised |-> f.raised]
    ELSE [raised |-> "",
          make |-> make,
          model |-> model,
          year |-> year,
          mileage |-> mileage,
          condition |-> condition,
          low_price |-> f.low_price,
          market_price |-> f.market_price,
          high_price |-> f.high_price,
          msrp |-> RoundTo(f.msrp, MoneyScale),
          confidence |-> RoundTo(f.confidence, Pct(1)),
          source |-> f.source,
          notes |-> f.notes]

estimate_price(make, model, year, mileage, condition, body_class, current_year, tie_up) ==
    Returned(make, model, year, mileage, condition,
             EstimateFrame(make, model, year, mileage, condition, body_class,
                           current_year, tie_up))

(***************************************************************************)
(* VIN decoding (backend/vin_service.py, backend/db.py) and the estimate   *)
(* from a VIN.                                                             *)
(*                                                                         *)
(* The answer of the NHTSA service to the decode request is Unreachable    *)
(* or a response with a status code and the items of its "Results", each   *)
(* a <<Variable, Value>> pair.                                             *)
(***************************************************************************)
Unreachable == [reached |-> FALSE]
Response(status_code, results) ==
    [reached |-> TRUE, status_code |-> status_code, Results |-> results]

\* d[k] = v
DictSet(d, k, v) ==
    IF DictHas(d, k)
    THEN [i \in 1..Len(d) |-> IF d[i][1] = k THEN <<k, v>> ELSE d[i]]
    ELSE Append(d, <<k, v>>)

\* The flat dict of the non-empty values, stripped.
RECURSIVE NonEmptyFields(_)
NonEmptyFields(data) ==
    IF data = <<>> THEN <<>>
    ELSE LET item == data[Len(data)]
             result == NonEmptyFields(SubSeq(data, 1, Len(data) - 1))
         IN  IF Truthy(item[2]) /\ strip(item[2]) # ""
             THEN DictSet(result, item[1], strip(item[2]))
             ELSE result

\* requests.get raises when the service is not reached. (A body that is no
\* JSON is not among the checked answers.)
_decode_vin_raw(vin, answer) ==
    IF ~answer.reached THEN [raised |-> "requests.ConnectionError"]
    ELSE IF answer.status_code # 200 THEN [raised |-> "ConnectionError"]
    ELSE [raised |-> "", result |-> NonEmptyFields(answer.Results)]

\* INSERT OR IGNORE INTO vehicles: a new row gets the next id; a VIN already in
\* the table leaves the rows alone (the sequence still advances, SQLite 3.40)
\* and its row's id is fetched.
save_vehicle(vehicle_data, table) ==
    LET held == {i \in 1..Len(table.rows) : table.rows[i].vin = vehicle_data.vin}
        row == [id |-> table.seq + 1,
                vin |-> vehicle_data.vin,
                make |-> vehicle_data.make,
                model |-> vehicle_data.model,
                year |-> vehicle_data.year,
                trim |-> vehicle_data.trim,
                body_class |-> vehicle_data.body_class]
    IN  IF held = {}
        THEN [vehicle_id |-> row.id,
              table |-> [rows |-> Append(table.rows, row), seq |-> row.id]]
        ELSE [vehicle_id |-> table.rows[CHOOSE i \in held : TRUE].id,
              table |-> [rows |-> table.rows, seq |-> table.seq + 1]]

\* The decoded vehicle and the table after the call. db_up is whether the
\* database takes the save; a failed save leaves vehicle_id None. (The fields
\* engine, fuel_type, drive_type, plant_info and extra are read from raw in the
\* same way and are no input of the price estimate.)
decode_vin(vin, answer, table, db_up) ==
    LET raw == _decode_vin_raw(vin, answer)
        vehicle == [vin |-> vin,
                    make |-> DictGet(raw.result, "Make", None),
                    model |-> DictGet(raw.result, "Model", None),
                    year |-> DictGet(raw.result, "Model Year", None),
                    trim |-> DictGet(raw.result, "Trim", None),
                    body_class |-> DictGet(raw.result, "Body Class", None)]
        saved == save_vehicle(vehicle, table)
        Identified(vehicle_id) ==
            [vin |-> vin, make |-> vehicle.make, model |-> vehicle.model,
             year |-> vehicle.year, trim |-> vehicle.trim,
             body_class |-> vehicle.body_class, vehicle_id |-> vehicle_id]
    IN  IF raw.raised # "" THEN [raised |-> raw.raised, table |-> table]
        ELSE IF db_up
        THEN [raised |-> "", vehicle |-> Identified(<<saved.vehicle_id>>),
              table |-> saved.table]
        ELSE [raised |-> "", vehicle |-> Identified(<<>>), table |-> table]

\* int(s) of a string: <<>> for ValueError, else <<n>>. Surrounding blanks, a
\* sign and digits are read. (int() also reads underscores between digits.)
ParseInt(s) ==
    LET body == strip(s)
        signed == body # "" /\ CharAt(body, 1) \in {"-", "+"}
        digits == IF signed THEN SubSeq(body, 2, Len(body)) ELSE body
    IN  IF digits # "" /\ IsDigits(digits)
        THEN <<IF signed /\ CharAt(body, 1) = "-" THEN -ToNat(digits) ELSE ToNat(digits)>>
        ELSE <<>>

\* The test without the model.
Undetermined_NoModel(make, model, year_str) == ~(Truthy(make) /\ Truthy(year_str))

\* not (make and model and year_str)
Undetermined(make, model, year_str) ==
    ~(Truthy(make) /\ Truthy(model) /\ Truthy(year_str))

\* The estimate with the VIN and the id of the vehicle's row added.
WithVin(result, vin, vehicle_id) ==
    [raised |-> "",
     make |-> result.make,
     model |-> result.model,
     year |-> result.year,
     mileage |-> result.mileage,
     condition |-> result.condition,
     low_price |-> result.low_price,
     market_price |-> result.market_price,
     high_price |-> result.high_price,
     msrp |-> result.msrp,
     confidence |-> result.confidence,
     source |-> result.source,
     notes |-> result.notes,
     vin |-> vin,
     vehicle_id |-> vehicle_id]

\* Whether estimate_price_from_vin gets as far as its call of estimate_price.
VinEstimated(decoded) ==
    /\ decoded.raised = ""
    /\ ~Undetermined(decoded.vehicle.make, decoded.vehicle.model, decoded.vehicle.year)
    /\ ParseInt(decoded.vehicle.year) # <<>>

\* estimate_price_from_vin around its call of estimate_price; result is what
\* that call returns, if it is made.
VinResult(vin, decoded, result) ==
    IF decoded.raised # "" THEN [raised |-> decoded.raised]
    ELSE IF Undetermined(decoded.vehicle.make, decoded.vehicle.model, decoded.vehicle.year)
    THEN [raised |-> "", error |-> "Could not determine make/model/year from VIN"]
    ELSE IF ParseInt(decoded.vehicle.year) = <<>>
    THEN [raised |-> "",
          error |-> "Invalid year from VIN decode: " \o decoded.vehicle.year]
    ELSE IF result.raised # "" THEN [raised |-> result.raised]
    ELSE WithVin(result, vin, decoded.vehicle.vehicle_id)

\* decoded is what decode_vin(vin) answers.
estimate_price_from_vin(vin, decoded, current_year, tie_up) ==
    VinResult(vin, decoded,
              estimate_price(decoded.vehicle.make, decoded.vehicle.model,
                             ParseInt(decoded.vehicle.year)[1], <<>>, "good",
                             decoded.vehicle.body_class, current_year, tie_up))

(***************************************************************************)
(* Contract price comparison.                                              *)
(*                                                                         *)
(* A value of a contract field of any type is a record tagged with its     *)
(* Python type.                                                            *)
(***************************************************************************)
PyNone == [t |-> "NoneType"]
PyNum(x) == [t |-> "float", num |-> x]
PyStr(s) == [t |-> "str", str |-> s]
PyList(n) == [t |-> "list", len |-> n]

\* bool(v)
PyTruthy(v) ==
    CASE v.t = "NoneType" -> FALSE
      [] v.t = "float" -> v.num # 0
      [] v.t = "str" -> v.str # ""
      [] v.t = "list" -> v.len # 0

\* float(s) of a string: <<>> for ValueError, else <<amount>>. Surrounding
\* blanks, a sign, digits and one decimal point are read, to the four decimals
\* of a money amount. (float() also reads exponents, underscores, "inf" and
\* "nan"; such strings are not among the checked inputs.)
ParseFloat(s) ==
    LET body == strip(s)
        signed == body # "" /\ CharAt(body, 1) \in {"-", "+"}
        digits == IF signed THEN SubSeq(body, 2, Len(body)) ELSE body
        dots == {i \in 1..Len(digits) : CharAt(digits, i) = "."}
        dot == IF dots = {} THEN Len(digits) + 1 ELSE CHOOSE i \in dots : TRUE
        whole == SubSeq(digits, 1, dot - 1)
        fraction == SubSeq(digits, dot + 1, Len(digits))
        padded == SubSeq(fraction \o "0000", 1, 4)
        amount == ToNat(whole) * MoneyScale + ToNat(padded)
    IN  IF /\ Cardinality(dots) <= 1
           /\ IsDigits(whole)
           /\ IsDigits(fraction)
           /\ Len(whole) + Len(fraction) > 0
        THEN <<IF signed /\ CharAt(body, 1) = "-" THEN -amount ELSE amount>>
        ELSE <<>>

\* float(v)
float(v) ==
    CASE v.t = "float" -> [raised |-> "", value |-> v.num]
      [] v.t = "str" ->
           IF ParseFloat(v.str) = <<>> THEN [raised |-> "ValueError"]
           ELSE [raised |-> "", value |-> ParseFloat(v.str)[1]]
      [] OTHER -> [raised |-> "TypeError"]

\* The nearest integer to num / den for num >= 0 and den > 0. The quotient is
\* a float in the source: halfway between two integers it falls to either
\* side, as tie_up says.
RoundRatio(num, den, tie_up) ==
    LET q == num \div den
        r == num % den
    IN  IF 2 * r > den \/ (2 * r = den /\ tie_up) THEN q + 1 ELSE q

\* The deviation of the market price from the finance amount.
Deviation_Reversed(finance_amount, market_price) ==
    [num |-> market_price - finance_amount, den |-> market_price \div 100]

\* ((finance_amount - market_price) / market_price) * 100, as the exact
\* ratio num / den. market_price is a whole number of hundreds of dollars.
Deviation(finance_amount, market_price) ==
    [num |-> finance_amount - market_price, den |-> market_price \div 100]

\* deviation_pct > p and deviation_pct < p
Above(deviation_pct, p) == deviation_pct.num > p * deviation_pct.den
Below(deviation_pct, p) == deviation_pct.num < p * deviation_pct.den

\* |deviation_pct| * scale rounded to an integer, with the sign of deviation_pct.
RoundDeviation(deviation_pct, scale, tie_up) ==
    LET n == Abs(deviation_pct.num)
        d == deviation_pct.den
        whole == (n \div d) * scale
        part == RoundRatio((n % d) * scale, d, tie_up)
    IN  IF deviation_pct.num < 0 THEN -(whole + part) ELSE whole + part

\* The classification with the boundaries included.
Assessment_Inclusive(deviation_pct, msg_up) ==
    LET shown == ToString(Abs(RoundDeviation(deviation_pct, 1, msg_up)))
    IN  IF ~Below(deviation_pct, 15)
        THEN [assessment |-> "overpriced",
              message |-> "Contract price is " \o shown \o "% above market value"]
        ELSE IF ~Below(deviation_pct, 5)
        THEN [assessment |-> "slightly_above_market",
              message |-> "Contract price is " \o shown \o "% above market"]
        ELSE IF ~Above(deviation_pct, -10)
        THEN [assessment |-> "good_deal",
              message |-> "Contract price is " \o shown \o "% below market"]
        ELSE [assessment |-> "fair",
              message |-> "Contract price is within fair market range"]

\* The assessment and the message of a deviation.
Assessment(deviation_pct, msg_up) ==
    LET shown == ToString(Abs(RoundDeviation(deviation_pct, 1, msg_up)))
    IN  IF Above(deviation_pct, 15)
        THEN [assessment |-> "overpriced",
              message |-> "Contract price is " \o shown \o "% above market value"]
        ELSE IF Above(deviation_pct, 5)
        THEN [assessment |-> "slightly_above_market",
              message |-> "Contract price is " \o shown \o "% above market"]
        ELSE IF Below(deviation_pct, -10)
        THEN [assessment |-> "good_deal",
              message |-> "Contract price is " \o shown \o "% below market"]
        ELSE [assessment |-> "fair",
              message |-> "Contract price is within fair market range"]

YearTruthy(year) == year # <<>> /\ year[1] # 0

\* The test without the make.
InsufficientData_NoMake(finance_amount, make, model, year) ==
    ~PyTruthy(finance_amount) \/ ~(Truthy(model) /\ YearTruthy(year))

\* not finance_amount or not (make and model and year)
InsufficientData(finance_amount, make, model, year) ==
    ~PyTruthy(finance_amount) \/ ~(Truthy(make) /\ Truthy(model) /\ YearTruthy(year))

\* Whether compare_contract_to_market gets as far as its call of
\* estimate_price.
CompareEstimated(sla, make, model, year) ==
    /\ ~InsufficientData(DictGet(sla, "finance_amount", PyNone), make, model, year)
    /\ float(DictGet(sla, "finance_amount", PyNone)).raised = ""

\* compare_contract_to_market around its call of estimate_price; estimate is
\* what that call returns, if it is made.
CompareResult(sla, make, model, year, estimate, dev_up, msg_up) ==
    LET finance_amount == DictGet(sla, "finance_amount", PyNone)
        converted == float(finance_amount)
        deviation_pct == Deviation(converted.value, estimate.market_price)
        judged == Assessment(deviation_pct, msg_up)
    IN  IF InsufficientData(finance_amount, make, model, year)
        THEN [raised |-> "",
              comparison_available |-> FALSE,
              reason |-> "Insufficient data for price comparison"]
        ELSE IF converted.raised # ""
        THEN [raised |-> "",
              comparison_available |-> FALSE,
              reason |-> "Invalid finance amount"]
        ELSE IF estimate.raised # "" THEN [raised |-> estimate.raised]
        ELSE [raised |-> "",
              comparison_available |-> TRUE,
              finance_amount |-> converted.value,
              market_price |-> estimate.market_price,
              \* (the source's dash is U+2013)
              price_range |-> "$" \o FormatThousands(estimate.low_price \div MoneyScale)
                              \o " - $"
                              \o FormatThousands(estimate.high_price \div MoneyScale),
              deviation_percent |-> RoundDeviation(deviation_pct, 10, dev_up),
              confidence |-> estimate.confidence,
              assessment |-> judged.assessment,
              message |-> judged.message]

\* Ties of the three roundings of floats are decided by tie_up (market
\* price), dev_up (deviation_percent) and msg_up (the percentage of the message).
\* deviation_percent counts tenths of a percent.
compare_contract_to_market(sla, make, model, year, current_year, tie_up, dev_up, msg_up) ==
    CompareResult(sla, make, model, year,
                  estimate_price(make, model, year[1], <<>>, "good", None,
                                 current_year, tie_up),
                  dev_up, msg_up)

(***************************************************************************)
(* The calls that are checked.                                             *)
(***************************************************************************)
Years == MinYear..MaxYear
Nows == 2024..MaxNow

\* Every model of the reference table, spelled as in the table.
TableVehicles ==
    UNION {{<<MSRP_DATABASE[i][1], MSRP_DATABASE[i][2][j][1]>> :
               j \in 1..Len(MSRP_DATABASE[i][2])} : i \in 1..Len(MSRP_DATABASE)}

\* The table's vehicles in three letter cases.
TableSpellings ==
    UNION {{v, <<lower(v[1]), lower(v[2])>>, <<title(v[1]), upper(v[2])>>} :
              v \in TableVehicles}

\* Vehicles that miss the table's keys.
OtherVehicles ==
    { <<"Toyota", "Camry LE">>, <<" toyota ", " camry ">>, <<"Honda", "CRV">>,
      <<"Tesla", "Model">>, <<"Ford", "">>, <<"BMW", "X">>,
      <<"Yugo", "GV">>, <<"", "Camry">>, <<None, "Civic">>,
      <<"Nissan", None>>, <<"Yugo", None>> }

Mileages == { <<>>, <<0>>, <<-5000>>, <<30000>>, <<400000>> }
Conditions == { "good", "Good", "Excellent", "fair", "POOR", "mint", None }
BodyClasses == { None, "", "hatchback", "Sport Utility Vehicle (SUV)" }

VehicleArgs(v, y, m, c, b) ==
    [make |-> v[1], model |-> v[2], year |-> y, mileage |-> m, condition |-> c,
     body_class |-> b]

\* estimate_price is called with every table spelling and year under the
\* default options (a Toyota Camry also as "Toyota", "Camry"), and with a
\* smaller set of vehicles under every option.
EstimateArgs ==
    {VehicleArgs(v, y, <<>>, "good", None) :
        v \in TableSpellings \cup {<<"Toyota", "Camry">>}, y \in Years}
    \cup {VehicleArgs(v, y, m, c, b) :
             v \in OtherVehicles \cup {<<"Toyota", "Camry">>, <<"Tesla", "Model Y">>},
             y \in {AntiqueYear, MinYear, 2015, 2024, MaxYear},
             m \in Mileages, c \in Conditions, b \in BodyClasses}

\* _mileage_adjustment is called with mileages around the expected mileage of
\* each age, up to 100,000 miles either way.
MileageOffsets ==
    { -100000, -50001, -50000, -49999, -10000, -1, 0, 1, 3333, 10000, 49999,
      50000, 50001, 100000 }

MileageArgs ==
    {a \in [mileage : {Max(age, 1) * 12000 + d : age \in -1..MaxAdjAge,
                                                  d \in MileageOffsets},
            vehicle_age : -1..MaxAdjAge] : a.mileage > 0}

\* _condition_multiplier is called with the four conditions in several letter
\* cases and with strings that are none of them.
ConditionStrings ==
    { "excellent", "Excellent", "EXCELLENT", "eXcElLeNt", "good", "Good", "GOOD",
      "fair", "Fair", "FAIR", "faiR", "poor", "Poor", "POOR", "pOOr",
      "mint", "", " good", "excellent ", "very good", "goo", "poorly", "bad",
      "Fair!", "new", "like new", "average", "GOOD ", "p00r", "salvage" }

\* compare_contract_to_market is called on vehicles resolved in each way, at
\* the floor (AntiqueYear) and at market price 30000 (Toyota Camry of 2026).
CompareVehicles ==
    { <<"Toyota", "Camry">>, <<"honda", "civic">>, <<"Toyota", "Camry LE">>,
      <<"Yugo", "GV">> }
CompareYears == { AntiqueYear, 2015, 2020, 2026 }

\* Deviations from the market price in hundredths of a percent: around each
\* boundary, and at ties of the roundings.
BasisPoints ==
    { -5000, -1005, -1001, -1000, -999, 0, 499, 500, 501, 1250, 1499, 1500,
      1501, 1505, 3335 }

\* Finance amounts at those deviations from the market price of the vehicle.
AmountsAround(v, y, current_year) ==
    {mp + bp * (mp \div 10000) :
        bp \in BasisPoints,
        mp \in {estimate_price(v[1], v[2], y, <<>>, "good", None, current_year,
                               t).market_price : t \in BOOLEAN}}

NumericStrings == { "40000", " 33235.50 ", "+25000", "-100", ".5", "0", "0.0" }
NonNumericStrings == { "abc", "$25,000", "25,000", "12.5.1", "--5", "N/A", " " }

\* The values of the contract's finance_amount next to a vehicle.
FinanceValues(v, y, current_year) ==
    {PyNum(a) : a \in AmountsAround(v, y, current_year)
                      \cup {0, Money(40000), -Money(5000)}}
    \cup {PyStr(s) : s \in NumericStrings \cup NonNumericStrings \cup {""}}
    \cup {PyNone, PyList(0), PyList(1)}

\* A contract with the finance amount f; f = <<>> for a contract without one.
Sla(f) ==
    << <<"apr_percent", PyNum(59000)>>, <<"lender", PyStr("Acme Auto Finance")>> >>
    \o (IF f = <<>> THEN <<>> ELSE << <<"finance_amount", f[1]>> >>)

CompareCall(f, make, model, year) ==
    [sla |-> Sla(f), make |-> make, model |-> model, year |-> year]

\* Complete calls, and calls that lack the finance amount, the make, the model
\* or the year.
CompareArgs(current_year) ==
    UNION {{CompareCall(<<f>>, v[1], v[2], <<y>>) :
               f \in FinanceValues(v, y, current_year)} :
              v \in CompareVehicles, y \in CompareYears}
    \cup {CompareCall(<<>>, v[1], v[2], <<2020>>) : v \in CompareVehicles}
    \cup {CompareCall(<<f>>, v[1], v[2], y) :
             v \in {<<None, "Camry">>, <<"", "Camry">>, <<"Toyota", None>>,
                    <<"Toyota", "">>, <<None, None>>, <<"Toyota", "Camry">>},
             y \in {<<>>, <<0>>, <<2020>>},
             f \in {PyNum(Money(40000)), PyStr("abc"), PyNone, PyStr("40000")}}

\* The vehicles table when empty, and when it holds the VIN already.
NoVehicles == [rows |-> <<>>, seq |-> 0]

HoldingVin(vin) ==
    [rows |-> << [id |-> 1, vin |-> vin, make |-> "TOYOTA", model |-> "Camry",
                  year |-> "2020", trim |-> None, body_class |-> None],
                 [id |-> 3, vin |-> "1HGCV1F3XLA000001", make |-> "HONDA",
                  model |-> "Accord", year |-> "2020", trim |-> "EX",
                  body_class |-> "Sedan/Saloon"] >>,
     seq |-> 3]

Vins == { "4T1B11HK5KU123456" }

\* The items of a decode response; a value is None, empty, blank or text.
NhtsaItems(make, model, year, body_class) ==
    << <<"Error Code", "0">>, <<"Make", make>>, <<"Model", model>>,
       <<"Model Year", year>>, <<"Body Class", body_class>>, <<"Trim", "LE ">>,
       <<"Series", "">> >>

\* What the NHTSA service can answer: nothing, an error status, no results,
\* results with any of make, model and year present, missing or unusable.
NhtsaAnswers ==
    {Unreachable, Response(503, <<>>), Response(404, <<>>), Response(200, <<>>)}
    \cup {Response(200, NhtsaItems(make, model, year, body_class)) :
             make \in {"TOYOTA", "YUGO", None, " "},
             model \in {"Camry", " GV", None, ""},
             year \in {"2020", "2026", ToString(AntiqueYear), "abc", "20.5", None},
             body_class \in {None, "Sedan/Saloon", "Hatchback/Liftback/Notchback"}}

\* estimate_price_from_vin is called with a VIN; nhtsa is the answer its decode
\* request will get and db_up whether the database takes the save.
VinArgs == [vin : Vins, nhtsa : NhtsaAnswers, db_up : BOOLEAN]

\* estimate_price is called twice with the same arguments, among them
\* arguments whose value before rounding lies on a tie (Yugo GV of 2024 with
\* 400,000 miles) and arguments that make it raise.
TwiceArgs ==
    {VehicleArgs(v, y, m, c, b) :
        v \in {<<"Toyota", "Camry">>, <<"Toyota", "Camry LE">>, <<"Yugo", "GV">>},
        y \in {2015, 2024},
        m \in {<<>>, <<30000>>, <<400000>>},
        c \in {"good", "Excellent", "fair", None},
        b \in BodyClasses}

\* _estimate_msrp_by_category is called without a body class, with body
\* classes as the VIN decoder words them, in several letter cases, with more
\* than one category and with none.
BodyClassStrings ==
    { None, "", " ", "Sedan/Saloon", "sedan", "SEDAN", "Sport Utility Vehicle (SUV)",
      "suv", "Sport Utility Vehicle", "Crossover Utility Vehicle (CUV)", "Pickup",
      "Truck", "Truck-Tractor", "Coupe", "Hatchback/Liftback/Notchback", "Minivan",
      "Cargo Van", "VAN", "Convertible/Cabriolet", "Wagon", "Station wagon",
      "Sedan or Coupe", "Wagon, SUV", "convertible coupe", "Motorcycle", "Bus",
      "Default", "default", "Limousine", "Roadster", "s e d a n", "hatch" }

NoFrame == [raised |-> "not called"]

\* The negotiation_messages table when empty: its rows and the last id given
\* out.
NoMessages == [rows |-> <<>>, seq |-> 0]

Init ==
    /\ pc = "call"
    /\ \/ op = "estimate_price" /\ args \in EstimateArgs /\ now \in Nows
       \/ op = "estimate_price_from_vin" /\ args \in VinArgs /\ now \in Nows
       \/ op = "estimate_price_twice" /\ args \in TwiceArgs /\ now \in Nows
       \/ /\ op = "_get_depreciation_factor"
          /\ args \in [vehicle_age : -2..MaxAge]
          /\ now = 2024
       \/ op = "_mileage_adjustment" /\ args \in MileageArgs /\ now = 2024
       \/ /\ op = "compare_contract_to_market"
          /\ now \in Nows
          /\ args \in CompareArgs(now)
       \/ /\ op = "_condition_multiplier"
          /\ args \in [condition : ConditionStrings]
          /\ now = 2024
       \/ /\ op = "_estimate_msrp_by_category"
          /\ args \in [body_class : BodyClassStrings]
          /\ now = 2024
    /\ ret = NoFrame
    /\ frame = NoFrame
    /\ IF op = "estimate_price_from_vin"
       THEN vehicles \in {NoVehicles, HoldingVin(args.vin)}
       ELSE vehicles = NoVehicles
    /\ msrp_database = MSRP_DATABASE
    /\ category_msrp = CATEGORY_MSRP
    /\ workers = <<>>
    /\ negotiation_threads = <<>>
    /\ negotiation_messages = NoMessages
    /\ db_lock = FALSE

CallEstimatePrice ==
    /\ pc = "call"
    /\ op = "estimate_price"
    /\ \E tie_up \in BOOLEAN :
           frame' = EstimateFrame(args.make, args.model, args.year, args.mileage,
                                  args.condition, args.body_class, now, tie_up)
    /\ ret' = Returned(args.make, args.model, args.year, args.mileage,
                       args.condition, frame')
    /\ pc' = "done"
    /\ UNCHANGED <<op, args, now, vehicles, tables, pool>>

CallGetDepreciationFactor ==
    /\ pc = "call"
    /\ op = "_get_depreciation_factor"
    /\ ret' = [raised |-> "", value |-> _get_depreciation_factor(args.vehicle_age)]
    /\ frame' = NoFrame
    /\ pc' = "done"
    /\ UNCHANGED <<op, args, now, vehicles, tables, pool>>

CallMileageAdjustment ==
    /\ pc = "call"
    /\ op = "_mileage_adjustment"
    /\ ret' = [raised |-> "",
               value |-> _mileage_adjustment(args.mileage, args.vehicle_age)]
    /\ frame' = NoFrame
    /\ pc' = "done"
    /\ UNCHANGED <<op, args, now, vehicles, tables, pool>>

CallConditionMultiplier ==
    /\ pc = "call"
    /\ op = "_condition_multiplier"
    /\ ret' = [raised |-> "", value |-> _condition_multiplier(args.condition)]
    /\ frame' = NoFrame
    /\ pc' = "done"
    /\ UNCHANGED <<op, args, now, vehicles, tables, pool>>

CallEstimateMsrpByCategory ==
    /\ pc = "call"
    /\ op = "_estimate_msrp_by_category"
    /\ ret' = [raised |-> "", value |-> _estimate_msrp_by_category(args.body_class)]
    /\ frame' = NoFrame
    /\ pc' = "done"
    /\ UNCHANGED <<op, args, now, vehicles, tables, pool>>

\* The two calls with the rounding of the second independent of the first.
CallEstimatePriceTwice_FreeRounding ==
    /\ pc = "call"
    /\ op = "estimate_price_twice"
    /\ \E second_year \in now..MaxNow : \E tie_up, second_tie_up \in BOOLEAN :
           /\ ret' = [raised |-> "",
                      first_year |-> now,
                      first |-> estimate_price(args.make, args.model, args.year,
                                               args.mileage, args.condition,
                                               args.body_class, now, tie_up),
                      second_year |-> second_year,
                      second |-> estimate_price(args.make, args.model, args.year,
                                                args.mileage, args.condition,
                                                args.body_class, second_year,
                                                second_tie_up)]
           /\ frame' = EstimateFrame(args.make, args.model, args.year, args.mileage,
                                     args.condition, args.body_class, second_year,
                                     second_tie_up)
           /\ now' = second_year
    /\ pc' = "done"
    /\ UNCHANGED <<op, args, vehicles, tables, pool>>

\* Two calls of estimate_price with the same arguments, the second at the same
\* or a later time. Each reads the clock; nothing else is read and nothing is
\* written. The rounding of a float is a function of the float: in the same
\* year both calls round the same value before rounding, the same way.
CallEstimatePriceTwice ==
    /\ pc = "call"
    /\ op = "estimate_price_twice"
    /\ \E second_year \in now..MaxNow : \E tie_up, second_tie_up \in BOOLEAN :
           /\ second_year = now => second_tie_up = tie_up
           /\ ret' = [raised |-> "",
                      first_year |-> now,
                      first |-> estimate_price(args.make, args.model, args.year,
                                               args.mileage, args.condition,
                                               args.body_class, now, tie_up),
                      second_year |-> second_year,
                      second |-> estimate_price(args.make, args.model, args.year,
                                                args.mileage, args.condition,
                                                args.body_class, second_year,
                                                second_tie_up)]
           /\ frame' = EstimateFrame(args.make, args.model, args.year, args.mileage,
                                     args.condition, args.body_class, second_year,
                                     second_tie_up)
           /\ now' = second_year
    /\ pc' = "done"
    /\ UNCHANGED <<op, args, vehicles, tables, pool>>

\* frame holds the vehicle decode_vin answered.
CallEstimatePriceFromVin ==
    /\ pc = "call"
    /\ op = "estimate_price_from_vin"
    /\ LET decoded == decode_vin(args.vin, args.nhtsa, vehicles, args.db_up)
       IN  /\ \E tie_up \in BOOLEAN :
                  ret' = estimate_price_from_vin(args.vin, decoded, now, tie_up)
           /\ frame' = IF decoded.raised # "" THEN [raised |-> decoded.raised]
                       ELSE [raised |-> "", vehicle |-> decoded.vehicle]
           /\ vehicles' = decoded.table
    /\ pc' = "done"
    /\ UNCHANGED <<op, args, now, tables, pool>>

\* frame is the frame of the estimate_price call made, if one is made.
CallCompareContractToMarket ==
    /\ pc = "call"
    /\ op = "compare_contract_to_market"
    /\ \E tie_up, dev_up, msg_up \in BOOLEAN :
           /\ ret' = compare_contract_to_market(args.sla, args.make, args.model,
                                                args.year, now, tie_up, dev_up, msg_up)
           /\ frame' = IF "market_price" \in DOMAIN ret'
                       THEN EstimateFrame(args.make, args.model, args.year[1], <<>>,
                                          "good", None, now, tie_up)
                       ELSE NoFrame
    /\ pc' = "done"
    /\ UNCHANGED <<op, args, now, vehicles, tables, pool>>

Next ==
    \/ CallEstimatePrice
    \/ CallGetDepreciationFactor
    \/ CallMileageAdjustment
    \/ CallConditionMultiplier
    \/ CallEstimateMsrpByCategory
    \/ CallCompareContractToMarket
    \/ CallEstimatePriceFromVin
    \/ CallEstimatePriceTwice

Spec == Init /\ [][Next]_vars

(***************************************************************************)
(* Calls of the price engine made at the same time.                        *)
(*                                                                         *)
(* Each worker makes one call. A call touches what it shares with the      *)
(* others at three places: the vehicles table, where decode_vin saves the  *)
(* vehicle; MSRP_DATABASE, which _find_msrp reads; CATEGORY_MSRP, which    *)
(* _estimate_msrp_by_category reads. The workers take these steps in any   *)
(* order.                                                                  *)
(***************************************************************************)
Workers == 1..PoolSize

\* The calls made at the same time: one of each way of resolving the price,
\* one that raises, comparisons with and without an estimate, and estimates
\* from two VINs. tie_up is the side to which the float ties of the call fall.
ConcurrentCalls ==
    {[op |-> "estimate_price", args |-> a, tie_up |-> FALSE] :
        a \in {VehicleArgs(<<"Toyota", "Camry">>, MaxYear, <<30000>>, "fair", None),
               VehicleArgs(<<"Yugo", "GV">>, 2020, <<>>, "good", "hatchback"),
               VehicleArgs(<<"Nissan", None>>, 2020, <<>>, "good", None)}}
    \cup {[op |-> "compare_contract_to_market", args |-> a, tie_up |-> TRUE] :
             a \in {CompareCall(<<PyNum(Money(40000))>>, "Toyota", "Camry LE", <<2020>>),
                    CompareCall(<<PyNum(Money(40000))>>, None, "Camry", <<2020>>)}}
    \cup {[op |-> "estimate_price_from_vin", args |-> a, tie_up |-> FALSE] :
             a \in {[vin |-> "4T1B11HK5KU123456", db_up |-> TRUE,
                     nhtsa |-> Response(200, NhtsaItems("TOYOTA", "Camry", "2020", None))],
                    [vin |-> "VX1AA0000H0000001", db_up |-> TRUE,
                     nhtsa |-> Response(200, NhtsaItems("YUGO", " GV", "2026",
                                                        "Hatchback/Liftback/Notchback"))],
                    [vin |-> "4T1B11HK5KU123456", db_up |-> TRUE,
                     nhtsa |-> Response(503, <<>>)]}}

\* A worker about to make the call c.
Calling(c) ==
    [call |-> c, pc |-> "call", est |-> <<>>, decoded |-> NoFrame,
     found |-> NoFrame, ret |-> NoFrame]

InitConcurrent ==
    /\ pc = "idle"
    /\ op = ""
    /\ args = <<>>
    /\ ret = NoFrame
    /\ frame = NoFrame
    /\ now = 2024
    /\ vehicles = NoVehicles
    /\ msrp_database = MSRP_DATABASE
    /\ category_msrp = CATEGORY_MSRP
    /\ workers \in [Workers -> {Calling(c) : c \in ConcurrentCalls}]
    /\ negotiation_threads = <<>>
    /\ negotiation_messages = NoMessages
    /\ db_lock = FALSE

\* estimate_price is entered with the arguments est.
Estimating(worker, est) == [worker EXCEPT !.pc = "find", !.est = est]

\* The call returns.
Returning(worker, result) == [worker EXCEPT !.pc = "done", !.ret = result]

\* A call of estimate_price begins.
EnterEstimatePrice(w) ==
    /\ workers[w].pc = "call"
    /\ workers[w].call.op = "estimate_price"
    /\ workers' = [workers EXCEPT ![w] = Estimating(@, @.call.args)]
    /\ UNCHANGED <<single, now, vehicles, tables, negotiation>>

\* compare_contract_to_market up to its call of estimate_price.
ComparePrelude(worker, a) ==
    IF CompareEstimated(a.sla, a.make, a.model, a.year)
    THEN Estimating(worker, VehicleArgs(<<a.make, a.model>>, a.year[1], <<>>, "good", None))
    ELSE Returning(worker, CompareResult(a.sla, a.make, a.model, a.year, NoFrame,
                                         worker.call.tie_up, worker.call.tie_up))

EnterCompare(w) ==
    /\ workers[w].pc = "call"
    /\ workers[w].call.op = "compare_contract_to_market"
    /\ workers' = [workers EXCEPT ![w] = ComparePrelude(@, @.call.args)]
    /\ UNCHANGED <<single, now, vehicles, tables, negotiation>>

\* estimate_price_from_vin up to its call of estimate_price, decode_vin having
\* answered decoded.
VinPrelude(worker, decoded) ==
    IF VinEstimated(decoded)
    THEN [Estimating(worker,
                     VehicleArgs(<<decoded.vehicle.make, decoded.vehicle.model>>,
                                 ParseInt(decoded.vehicle.year)[1], <<>>, "good",
                                 decoded.vehicle.body_class))
          EXCEPT !.decoded = decoded]
    ELSE Returning(worker, VinResult(worker.call.args.vin, decoded, NoFrame))

\* The worker's decode_vin has answered decoded: the vehicles table is the one
\* its save left.
Decoded(w, decoded) ==
    /\ workers' = [workers EXCEPT ![w] = VinPrelude(@, decoded)]
    /\ vehicles' = decoded.table

EnterFromVin(w) ==
    /\ workers[w].pc = "call"
    /\ workers[w].call.op = "estimate_price_from_vin"
    /\ Decoded(w, decode_vin(workers[w].call.args.vin, workers[w].call.args.nhtsa,
                             vehicles, workers[w].call.args.db_up))
    /\ UNCHANGED <<single, now, tables, negotiation>>

\* MSRP_DATABASE.setdefault(make_upper, {}) in place of .get(make_upper, {}).
WorkerFind_SetDefault(w) ==
    /\ workers[w].pc = "find"
    /\ workers' = [workers EXCEPT ![w].pc = "value",
                                  ![w].found = FindInMake(MakeGet(msrp_database,
                                                                  workers[w].est.make),
                                                          workers[w].est.model,
                                                          workers[w].est.year)]
    /\ msrp_database' =
           IF MakeGet(msrp_database, workers[w].est.make) = <<>>
           THEN DictSet(msrp_database,
                        IF Truthy(workers[w].est.make)
                        THEN strip(upper(workers[w].est.make)) ELSE "", <<>>)
           ELSE msrp_database
    /\ UNCHANGED <<single, now, vehicles, category_msrp, negotiation>>

\* The worker's _find_msrp: it reads MSRP_DATABASE as it stands.
WorkerFind(w) ==
    /\ workers[w].pc = "find"
    /\ workers' = [workers EXCEPT ![w].pc = "value",
                                  ![w].found = FindInMake(MakeGet(msrp_database,
                                                                  workers[w].est.make),
                                                          workers[w].est.model,
                                                          workers[w].est.year)]
    /\ UNCHANGED <<single, now, vehicles, tables, negotiation>>

\* What the worker's call returns once its estimate_price has returned estimate.
WorkerResult(worker, estimate) ==
    CASE worker.call.op = "estimate_price" -> estimate
      [] worker.call.op = "compare_contract_to_market" ->
           CompareResult(worker.call.args.sla, worker.call.args.make,
                         worker.call.args.model, worker.call.args.year, estimate,
                         worker.call.tie_up, worker.call.tie_up)
      [] worker.call.op = "estimate_price_from_vin" ->
           VinResult(worker.call.args.vin, worker.decoded, estimate)

\* The rest of the worker's estimate_price: it reads CATEGORY_MSRP as it
\* stands if the table had no price, and the clock.
WorkerValue(w) ==
    /\ workers[w].pc = "value"
    /\ workers' =
           [workers EXCEPT ![w] =
               Returning(@, WorkerResult(@,
                   Returned(@.est.make, @.est.model, @.est.year, @.est.mileage,
                            @.est.condition,
                            AfterStep1(@.found,
                                       IF Hit(@.found) THEN @.found.msrp[1]
                                       ELSE Money(CategoryGet(category_msrp,
                                                              @.est.body_class)),
                                       VehicleAge(now, @.est.year), @.est.mileage,
                                       @.est.condition, @.call.tie_up))))]
    /\ UNCHANGED <<single, now, vehicles, tables, negotiation>>

NextConcurrent ==
    \E w \in Workers :
        \/ EnterEstimatePrice(w)
        \/ EnterCompare(w)
        \/ EnterFromVin(w)
        \/ WorkerFind(w)
        \/ WorkerValue(w)

SpecConcurrent == InitConcurrent /\ [][NextConcurrent]_vars


(***************************************************************************)
(* The negotiation chat (backend/main.py, backend/db.py).                  *)
(*                                                                         *)
(* A row of negotiation_threads is its id and context_json; a row of       *)
(* negotiation_messages is its id, thread_id, role and content (created_at *)
(* is not read by the handler). The messages table is its rows and the     *)
(* last id given out.                                                      *)
(***************************************************************************)
\* The negotiation_threads row with the id, <<>> for none (fetchone()).
ThreadRow(threads, thread_id) ==
    IF \E i \in 1..Len(threads) : threads[i].id = thread_id
    THEN <<threads[CHOOSE i \in 1..Len(threads) : threads[i].id = thread_id]>>
    ELSE <<>>

\* INSERT INTO negotiation_messages on a connection of its own. The insert
\* fails while another connection holds the write lock ("database is locked")
\* and when thread_id names no thread (foreign_keys is ON). The function does
\* not close its connection when the insert raises: the connection of a
\* failed foreign key check keeps the write lock, its transaction open.
save_negotiation_message(thread_id, role, content, threads, messages, locked) ==
    IF locked
    THEN [raised |-> "sqlite3.OperationalError", messages |-> messages, locked |-> TRUE]
    ELSE IF ThreadRow(threads, thread_id) = <<>>
    THEN [raised |-> "sqlite3.IntegrityError", messages |-> messages, locked |-> TRUE]
    ELSE [raised |-> "",
          messages |-> [rows |-> Append(messages.rows,
                                        [id |-> messages.seq + 1,
                                         thread_id |-> thread_id,
                                         role |-> role,
                                         content |-> content]),
                        seq |-> messages.seq + 1],
          locked |-> FALSE]

\* The role and content of the rows of a thread.
RECURSIVE RowsOf(_, _)
RowsOf(rows, thread_id) ==
    IF rows = <<>> THEN <<>>
    ELSE (IF Head(rows).thread_id = thread_id
          THEN <<[role |-> Head(rows).role, content |-> Head(rows).content]>>
          ELSE <<>>)
         \o RowsOf(Tail(rows), thread_id)

\* SELECT role, content, created_at ... WHERE thread_id = ? ORDER BY id ASC;
\* the rows are kept in the order of their ids.
get_negotiation_history(thread_id, messages) == RowsOf(messages.rows, thread_id)

\* history[:-1]
AllButLast(history) ==
    IF history = <<>> THEN <<>> ELSE SubSeq(history, 1, Len(history) - 1)

\* What the responder answers. (The answer of the language model is any
\* text; the handler stores and returns it as it is.)
chat_with_negotiator(user_message, context, chat_history) == "re: " \o user_message

\* The database negotiate_start leaves: a thread and its welcome message.
StartedThreads == << [id |-> 1, context_json |-> "{}"] >>

StartedMessages ==
    [rows |-> << [id |-> 1, thread_id |-> 1, role |-> "assistant",
                  content |-> "Welcome to your negotiation session!"] >>,
     seq |-> 1]

\* The chat requests: on the thread and on a thread id that does not exist.
ChatRequests ==
    [thread_id : {1, 7}, message : {"lower the apr", "what is gap insurance"}]

\* A worker about to handle the request. stored_before, handed and
\* stored_after record what the handler met: the thread's messages when its
\* user message was saved, the chat history it handed to the responder, and
\* the thread's messages when its reply was saved.
Handling(request) ==
    [request |-> request, pc |-> "save_user", thread |-> <<>>, history |-> <<>>,
     response |-> "", stored_before |-> <<>>, handed |-> <<>>,
     stored_after |-> <<>>, ret |-> NoFrame]

InitChat ==
    /\ pc = "idle"
    /\ op = ""
    /\ args = <<>>
    /\ ret = NoFrame
    /\ frame = NoFrame
    /\ now = 2024
    /\ vehicles = NoVehicles
    /\ msrp_database = MSRP_DATABASE
    /\ category_msrp = CATEGORY_MSRP
    /\ workers \in [Workers -> {Handling(r) : r \in ChatRequests}]
    /\ negotiation_threads = StartedThreads
    /\ negotiation_messages = StartedMessages
    /\ db_lock = FALSE

\* except Exception: return {"error": "Chat failed"}
ChatFailed(worker) == [worker EXCEPT !.pc = "done", !.ret = [error |-> "Chat failed"]]

\* The worker after its save of the user message, which answered saved.
UserSaved(worker, saved) ==
    IF saved.raised # "" THEN ChatFailed(worker)
    ELSE [worker EXCEPT !.pc = "load_thread",
                        !.stored_before =
                            get_negotiation_history(worker.request.thread_id,
                                                    negotiation_messages)]

\* The table and the lock as a save leaves them.
Saved(saved) ==
    /\ negotiation_messages' = saved.messages
    /\ db_lock' = saved.locked

\* save_negotiation_message(req.thread_id, "user", req.message)
ChatSaveUser(w) ==
    /\ workers[w].pc = "save_user"
    /\ workers' = [workers EXCEPT ![w] =
           UserSaved(@, save_negotiation_message(@.request.thread_id, "user",
                                                 @.request.message, negotiation_threads,
                                                 negotiation_messages, db_lock))]
    /\ Saved(save_negotiation_message(workers[w].request.thread_id, "user",
                                      workers[w].request.message, negotiation_threads,
                                      negotiation_messages, db_lock))
    /\ UNCHANGED <<single, now, vehicles, tables, negotiation_threads>>

\* The worker after its SELECT of the thread, which answered thread.
ThreadLoaded(worker, thread) ==
    IF thread = <<>>
    THEN [worker EXCEPT !.pc = "done",
                        !.ret = [error |-> "Negotiation thread not found"]]
    ELSE [worker EXCEPT !.pc = "load_history", !.thread = thread]

\* SELECT contract_id, context_json FROM negotiation_threads WHERE id = ?
ChatLoadThread(w) ==
    /\ workers[w].pc = "load_thread"
    /\ workers' = [workers EXCEPT ![w] =
           ThreadLoaded(@, ThreadRow(negotiation_threads, @.request.thread_id))]
    /\ UNCHANGED <<single, now, vehicles, tables, negotiation>>

\* history = get_negotiation_history(req.thread_id)
ChatLoadHistory(w) ==
    /\ workers[w].pc = "load_history"
    /\ workers' = [workers EXCEPT ![w].pc = "respond",
                                  ![w].history =
                                      get_negotiation_history(workers[w].request.thread_id,
                                                              negotiation_messages)]
    /\ UNCHANGED <<single, now, vehicles, tables, negotiation>>

\* response = chat_with_negotiator(..., chat_history=history[:-1])
ChatRespond(w) ==
    /\ workers[w].pc = "respond"
    /\ workers' = [workers EXCEPT ![w].pc = "save_reply",
                                  ![w].handed = AllButLast(workers[w].history),
                                  ![w].response =
                                      chat_with_negotiator(workers[w].request.message,
                                                           workers[w].thread[1].context_json,
                                                           AllButLast(workers[w].history))]
    /\ UNCHANGED <<single, now, vehicles, tables, negotiation>>

\* The worker after its save of the reply, which answered saved.
ReplySaved(worker, saved) ==
    IF saved.raised # "" THEN ChatFailed(worker)
    ELSE [worker EXCEPT !.pc = "done",
                        !.stored_after =
                            get_negotiation_history(worker.request.thread_id,
                                                    saved.messages),
                        !.ret = [thread_id |-> worker.request.thread_id,
                                 response |-> worker.response,
                                 message_count |-> Len(worker.history) + 1]]

\* save_negotiation_message(req.thread_id, "assistant", response) and the
\* return.
ChatSaveReply(w) ==
    /\ workers[w].pc = "save_reply"
    /\ workers' = [workers EXCEPT ![w] =
           ReplySaved(@, save_negotiation_message(@.request.thread_id, "assistant",
                                                  @.response, negotiation_threads,
                                                  negotiation_messages, db_lock))]
    /\ Saved(save_negotiation_message(workers[w].request.thread_id, "assistant",
                                      workers[w].response, negotiation_threads,
                                      negotiation_messages, db_lock))
    /\ UNCHANGED <<single, now, vehicles, tables, negotiation_threads>>

\* The garbage collector frees the connections that were never closed: their
\* transactions are rolled back and the write lock is released.
CollectGarbage ==
    /\ db_lock
    /\ db_lock' = FALSE
    /\ UNCHANGED <<single, now, vehicles, tables, workers, negotiation_threads,
                   negotiation_messages>>

NextChat ==
    \/ \E w \in Workers :
           \/ ChatSaveUser(w)
           \/ ChatLoadThread(w)
           \/ ChatLoadHistory(w)
           \/ ChatRespond(w)
           \/ ChatSaveReply(w)
    \/ CollectGarbage

SpecChat == InitChat /\ [][NextChat]_vars



(***************************************************************************)
(* Properties.                                                             *)
(***************************************************************************)
Done(o) == pc = "done" /\ op = o

\* estimate_price has returned a dict.
Estimated == Done("estimate_price") /\ ret.raised = ""

StartsWith(s, prefix) ==
    Len(s) >= Len(prefix) /\ SubSeq(s, 1, Len(prefix)) = prefix

\* The <<year, price>> pairs of d as a set.
Entries(d) == {d[i] : i \in 1..Len(d)}

\* x * 1.02^n, the power taken in steps that stay within 32 bits.
RECURSIVE Compound(_, _)
Compound(x, n) ==
    IF n > 30 THEN Compound(FMul(x, FPow(102, 100, 30)), n - 30)
    ELSE FMul(x, FPow(102, 100, n))

\* C1: every estimate returned by estimate_price has
\* low_price <= market_price <= high_price, with low_price >= 300,
\* market_price >= 500 and high_price >= 700.
C1_PriceOrderAndFloors ==
    Estimated =>
        /\ ret.low_price <= ret.market_price
        /\ ret.market_price <= ret.high_price
        /\ ret.low_price >= Money(300)
        /\ ret.market_price >= Money(500)
        /\ ret.high_price >= Money(700)

\* An estimate above the floors, with a proper spread.
C1_Witness ==
    /\ Estimated
    /\ frame.base_value > Money(1000)
    /\ ret.low_price < ret.market_price
    /\ ret.market_price < ret.high_price

\* C2: the market_price of every estimate is a multiple of 100, also when
\* the floor of 500 is applied.
C2_MarketMultipleOf100 ==
    Estimated => ret.market_price % Money(100) = 0

\* An estimate whose market price is the floor.
C2_Witness ==
    /\ Estimated
    /\ frame.base_value < Money(450)
    /\ ret.market_price = Money(500)

\* C3: the confidence is one of 0.80, 0.65, 0.55, 0.35 and is the one of the
\* provenance: exact match 0.80, nearest-year extrapolation of the exact model
\* 0.65, fuzzy model match 0.55, category fallback 0.35.
C3_ConfidenceByProvenance ==
    Estimated =>
        /\ ret.confidence \in {Pct(80), Pct(65), Pct(55), Pct(35)}
        /\ ret.source = "msrp_database" => ret.confidence = Pct(80)
        /\ StartsWith(ret.source, "msrp_database_extrapolated_from_")
               => ret.confidence = Pct(65)
        /\ StartsWith(ret.source, "msrp_database_fuzzy_")
               => ret.confidence = Pct(55)
        /\ ret.source = "category_estimate" => ret.confidence = Pct(35)

\* C4: a make, model and year of the reference table, spelled as in the table
\* in any letter case, resolves to the table price with source msrp_database
\* and confidence 0.80.
C4_TableEntryIsExactMatch ==
    (Estimated /\ args.make # None /\ args.model # None) =>
        \A i \in 1..Len(MSRP_DATABASE) :
            \A j \in 1..Len(MSRP_DATABASE[i][2]) :
                \A e \in Entries(MSRP_DATABASE[i][2][j][2]) :
                    ( /\ lower(args.make) = lower(MSRP_DATABASE[i][1])
                      /\ lower(args.model) = lower(MSRP_DATABASE[i][2][j][1])
                      /\ args.year = e[1] )
                    => /\ ret.msrp = Money(e[2])
                       /\ ret.source = "msrp_database"
                       /\ ret.confidence = Pct(80)

\* The requested model is no key of the make's table and is resolved by the
\* substring loop.
FuzzyResolved ==
    /\ args.make # None
    /\ args.model # None
    /\ ModelData(args.make, args.model) = <<>>
    /\ \E i \in 1..Len(MakeData(args.make)) :
           FuzzyMatches(MakeData(args.make)[i][1], args.model)

\* C5: a reference price resolved through a fuzzy model match has confidence
\* 0.55, whether the matched model has the requested year or its nearest year
\* is extrapolated.
C5_FuzzyConfidence ==
    (Estimated /\ FuzzyResolved) => ret.confidence = Pct(55)

\* No model of the (normalised) make is the requested model or matches it by
\* containment.
NoTableMatch(make, model) ==
    \A i \in 1..Len(MakeData(make)) :
        /\ MakeData(make)[i][1] # title(strip(model))
        /\ ~FuzzyMatches(MakeData(make)[i][1], model)

\* C6: resolution never fails. With strings for make, model and condition,
\* estimate_price returns an estimate, and with no table match the estimate
\* has source category_estimate and confidence 0.35; Yugo GV 2015 with body
\* class hatchback has reference price 24000.
C6_CategoryFallback ==
    (Done("estimate_price") /\ args.make # None /\ args.model # None
        /\ args.condition # None) =>
        /\ ret.raised = ""
        /\ NoTableMatch(args.make, args.model) =>
               /\ ret.source = "category_estimate"
               /\ ret.confidence = Pct(35)
        /\ ( /\ args.make = "Yugo"
             /\ args.model = "GV"
             /\ args.year = 2015
             /\ args.body_class = "hatchback" ) => ret.msrp = Money(24000)

\* Scenario B of the specification.
C6_Witness ==
    /\ Estimated
    /\ args.make = "Yugo"
    /\ args.model = "GV"
    /\ args.year = 2015
    /\ args.body_class = "hatchback"
    /\ ret.source = "category_estimate"
    /\ ret.msrp = Money(24000)

\* The model is a key of the table and the requested year is none of its years.
YearMissing ==
    /\ ModelData(args.make, args.model) # <<>>
    /\ ~DictHas(ModelData(args.make, args.model), args.year)

ExtrapolatedFrom(y) ==
    ret.source = "msrp_database_extrapolated_from_" \o ToString(y)

\* C7: when the model is in the table but not for the requested year, the
\* resolver uses the table year of minimum absolute distance from the
\* requested year, the lowest one if two are equally distant. (The last
\* conjunct: in the table no second year is as near as the nearest, so the
\* rule for ties is never exercised.)
C7_NearestYear ==
    (Estimated /\ YearMissing) =>
        \E e \in Entries(ModelData(args.make, args.model)) :
            /\ ExtrapolatedFrom(e[1])
            /\ \A z \in Entries(ModelData(args.make, args.model)) :
                   /\ Abs(e[1] - args.year) <= Abs(z[1] - args.year)
                   /\ Abs(z[1] - args.year) = Abs(e[1] - args.year) => e[1] <= z[1]
                   /\ z[1] # e[1] => Abs(z[1] - args.year) > Abs(e[1] - args.year)

\* Tesla Model Y, in the table from 2020 to 2024, requested for 2015.
C7_Witness ==
    /\ Estimated
    /\ YearMissing
    /\ args.year = 2015
    /\ ExtrapolatedFrom(2020)

\* The year tables an extrapolated source can have come from: the requested
\* model's, or the one of the model named by a fuzzy source.
ResolvedData ==
    ({ModelData(args.make, args.model)} \ {<<>>})
    \cup {MakeData(args.make)[i][2] : i \in
             {k \in 1..Len(MakeData(args.make)) :
                 ret.source = "msrp_database_fuzzy_" \o MakeData(args.make)[k][1]
                              \o "_extrapolated"}}

\* C8: an extrapolated reference price is tablePrice * 1.02^(requestedYear -
\* referenceYear), for the nearest table year as reference: compounding it
\* back over the same years gives the table price (to the cent), it is below
\* the table price when the requested year is before the reference year and
\* above it when after.
C8_Extrapolation ==
    (Estimated /\ Contains("extrapolated", ret.source)) =>
        \E d \in ResolvedData : \E e \in Entries(d) :
            /\ \A z \in Entries(d) : Abs(e[1] - args.year) <= Abs(z[1] - args.year)
            /\ args.year # e[1]
            /\ args.year < e[1] => frame.msrp < Money(e[2])
            /\ args.year > e[1] => frame.msrp > Money(e[2])
            /\ Abs(Compound(frame.msrp, e[1] - args.year) - Money(e[2])) <= 100

\* Toyota Camry of 2026, two years after the table's 2024: 28855 * 1.0404.
C8_Witness ==
    /\ Estimated
    /\ args.year = 2026
    /\ ret.source = "msrp_database_extrapolated_from_2024"
    /\ frame.msrp > Money(30020)
    /\ frame.msrp < Money(30021)

\* C9: the depreciation factor is non-increasing in the vehicle age and never
\* below 0.05.
C9_DepreciationMonotone ==
    Done("_get_depreciation_factor") =>
        /\ ret.value >= Pct(5)
        /\ \A b \in args.vehicle_age..MaxAge :
               _get_depreciation_factor(b) <= ret.value

\* An age at which the floor applies.
C9_Witness ==
    /\ Done("_get_depreciation_factor")
    /\ args.vehicle_age > 75
    /\ ret.value = Pct(5)

\* The schedule of the specification, in percent.
Schedule == <<20, 15, 10, 10, 10, 7, 7, 5, 5, 5>>

\* C10: the factor of age 0 (or less) is 1.0; the factor of an age from 1 to
\* 10 is the factor of the year before times (1 - rate of that year), that of
\* a later age the factor of the year before times 0.97, floored at 0.05; and
\* a model year after the current year is priced as age 0 with factor 1.0.
C10_DepreciationSchedule ==
    /\ Done("_get_depreciation_factor") =>
           LET a == args.vehicle_age
               before == _get_depreciation_factor(a - 1)
               stepped == IF a <= Len(Schedule)
                          THEN MulDiv(before, 100 - Schedule[a], 100)
                          ELSE MulDiv(before, 97, 100)
           IN  IF a <= 0 THEN ret.value = FactorScale
               ELSE Abs(ret.value - Max(stepped, Pct(5))) <= 50
    /\ (Estimated /\ args.year > now) =>
           /\ frame.vehicle_age = 0
           /\ frame.dep_factor = FactorScale

\* Age 12: ten scheduled years and two years at 3%, 0.36759... * 0.9409.
C10_Witness ==
    /\ Done("_get_depreciation_factor")
    /\ args.vehicle_age = 12
    /\ ret.value > 345870000
    /\ ret.value < 345880000

\* The miles driven beyond the expected 12,000 a year, an age below 1 counted
\* as one year.
MilesOver(mileage, age) == mileage - Max(age, 1) * 12000

\* clamp(-(over / 10000) * 0.03, -0.15, +0.15): the unclamped fraction leaves
\* the interval exactly when over is 50,000 miles or more either way.
ClampedFraction(over) ==
    IF over >= 50000 THEN -Pct(15)
    ELSE IF over <= -50000 THEN Pct(15)
    ELSE -(over * (Pct(3) \div 10000))

\* C11: for every positive mileage and every age, the mileage multiplier is
\* 1 + clamp(-((mileage - max(age, 1) * 12000) / 10000) * 0.03, -0.15, +0.15),
\* from _mileage_adjustment itself and in every estimate with a positive
\* mileage; the fraction never leaves [-0.15, +0.15], and 100,000 miles over
\* the expectation give exactly -15%.
C11_MileageClamp ==
    /\ Done("_mileage_adjustment") =>
           LET over == MilesOver(args.mileage, args.vehicle_age)
           IN  /\ ret.value = FactorScale + ClampedFraction(over)
               /\ ret.value >= Pct(85)
               /\ ret.value <= Pct(115)
               /\ over = 100000 => ret.value = Pct(85)
    /\ (Estimated /\ args.mileage # <<>> /\ args.mileage[1] > 0) =>
           frame.mile_adj = FactorScale
               + ClampedFraction(MilesOver(args.mileage[1], frame.vehicle_age))

\* 136,000 miles at age 3: 100,000 miles over the expected 36,000.
C11_Witness ==
    /\ Done("_mileage_adjustment")
    /\ args.vehicle_age = 3
    /\ args.mileage = 136000
    /\ ret.value = Pct(85)

NoMileageNote == "No mileage provided - using average estimate"

\* The three prices of a frame or of a returned dict.
Prices(r) == <<r.low_price, r.market_price, r.high_price>>

\* The frame of the same call without a mileage.
NoMileageFrame(tie_up) ==
    EstimateFrame(args.make, args.model, args.year, <<>>, args.condition,
                  args.body_class, now, tie_up)

\* C12: with a mileage of None, zero or less, estimate_price applies no
\* mileage adjustment: the multiplier is 1.0, the value before rounding and
\* the three prices are those of the same call without a mileage, and the
\* third note is the no-mileage note, not a comparison of mileages.
C12_NoMileageNoAdjustment ==
    (Estimated /\ (args.mileage = <<>> \/ args.mileage[1] <= 0)) =>
        /\ frame.mile_adj = FactorScale
        /\ frame.base_value = NoMileageFrame(TRUE).base_value
        /\ \E tie_up \in BOOLEAN : Prices(ret) = Prices(NoMileageFrame(tie_up))
        /\ ret.notes[3] = NoMileageNote
        /\ \A i \in 1..Len(ret.notes) : ~StartsWith(ret.notes[i], "Mileage ")

\* A negative mileage on a vehicle priced above the floors.
C12_Witness ==
    /\ Estimated
    /\ args.mileage = <<-5000>>
    /\ frame.mile_adj = FactorScale
    /\ ret.notes[3] = NoMileageNote
    /\ ret.market_price > Money(500)

\* s is the lower-case word, each letter in either case.
IsWord(s, word) ==
    /\ Len(s) = Len(word)
    /\ \A i \in 1..Len(word) :
           CharAt(s, i) \in {CharAt(word, i), UpperChar(CharAt(word, i))}

\* The multiplier the specification gives a condition string.
ConditionTable(s) ==
    IF IsWord(s, "excellent") THEN Pct(110)
    ELSE IF IsWord(s, "good") THEN FactorScale
    ELSE IF IsWord(s, "fair") THEN Pct(88)
    ELSE IF IsWord(s, "poor") THEN Pct(72)
    ELSE FactorScale

\* C13: the condition multiplier is 1.10 for excellent, 1.00 for good, 0.88
\* for fair and 0.72 for poor, in any letter case, and 1.00 for every other
\* string; from _condition_multiplier itself and in every estimate.
C13_ConditionMultiplier ==
    /\ Done("_condition_multiplier") => ret.value = ConditionTable(args.condition)
    /\ Estimated => frame.cond_mult = ConditionTable(args.condition)

\* A condition in mixed case.
C13_Witness ==
    /\ Done("_condition_multiplier")
    /\ args.condition = "eXcElLeNt"
    /\ ret.value = Pct(110)

\* compare_contract_to_market has returned a comparison.
Compared ==
    Done("compare_contract_to_market") /\ ret.raised = "" /\ ret.comparison_available

\* The finance amount less the market price raised by p percent.
Excess(p) == (ret.finance_amount - ret.market_price) - p * (ret.market_price \div 100)

\* C14: the deviation is classified with exclusive boundaries, in order:
\* above 15 overpriced, else above 5 slightly_above_market, else below -10
\* good_deal, otherwise fair; a deviation of exactly 15 is not overpriced
\* (it is slightly_above_market), exactly 5 is fair and exactly -10 is fair.
C14_ExclusiveBoundaries ==
    Compared =>
        /\ ret.assessment =
               (IF Excess(15) > 0 THEN "overpriced"
                ELSE IF Excess(5) > 0 THEN "slightly_above_market"
                ELSE IF Excess(-10) < 0 THEN "good_deal"
                ELSE "fair")
        /\ Excess(15) = 0 => ret.assessment = "slightly_above_market"
        /\ Excess(5) = 0 => ret.assessment = "fair"
        /\ Excess(-10) = 0 => ret.assessment = "fair"

\* A finance amount exactly 15% above the market price.
C14_Witness ==
    /\ Compared
    /\ Excess(15) = 0
    /\ ret.assessment = "slightly_above_market"

\* The finance amount of the contract passed.
FinanceArg == DictGet(args.sla, "finance_amount", PyNone)

\* The finance amount is missing or is no number.
FinanceUnusable ==
    \/ FinanceArg.t \in {"NoneType", "list"}
    \/ FinanceArg.t = "str" /\ FinanceArg.str \in NonNumericStrings \cup {""}

VehicleIncomplete ==
    args.make \in {None, ""} \/ args.model \in {None, ""} \/ args.year = <<>>

\* C15: compare_contract_to_market never raises, and when the finance amount
\* is missing or not numeric, or the make, the model or the year is missing,
\* it returns comparison_available = false with a reason and no assessment.
C15_FailsSoft ==
    Done("compare_contract_to_market") =>
        /\ ret.raised = ""
        /\ (FinanceUnusable \/ VehicleIncomplete) =>
               /\ ret.comparison_available = FALSE
               /\ ret.reason # ""
               /\ "assessment" \notin DOMAIN ret

\* A finance amount that is no number, next to a complete vehicle.
C15_Witness ==
    /\ Done("compare_contract_to_market")
    /\ ~VehicleIncomplete
    /\ FinanceArg = PyStr("abc")
    /\ ret.comparison_available = FALSE
    /\ ret.reason = "Invalid finance amount"

\* C16: in a comparison the market price is the market_price of
\* estimate_price(make, model, year) without mileage and in condition good,
\* the finance amount is the contract's as a float, and deviation_percent is
\* (finance amount - market price) / market price * 100 to one decimal;
\* 40000 against a market price of 30000 gives 33.3 and overpriced.
C16_DeviationPercent ==
    Compared =>
        /\ ret.finance_amount = float(FinanceArg).value
        /\ \E tie_up \in BOOLEAN :
               ret.market_price =
                   estimate_price(args.make, args.model, args.year[1], <<>>, "good",
                                  None, now, tie_up).market_price
        /\ 2 * Abs((ret.finance_amount - ret.market_price)
                   - ret.deviation_percent * (ret.market_price \div 1000))
               <= ret.market_price \div 1000
        /\ (ret.finance_amount = Money(40000) /\ ret.market_price = Money(30000)) =>
               /\ ret.deviation_percent = 333
               /\ ret.assessment = "overpriced"

\* Scenario C of the specification, on a Toyota Camry of 2026.
C16_Witness ==
    /\ Compared
    /\ ret.finance_amount = Money(40000)
    /\ ret.market_price = Money(30000)
    /\ ret.deviation_percent = 333
    /\ ret.assessment = "overpriced"

PriceFields == {"low_price", "market_price", "high_price", "msrp"}

\* An error result: a text, no price, nothing raised.
IsErrorResult(r) ==
    /\ r.raised = ""
    /\ "error" \in DOMAIN r
    /\ r.error # ""
    /\ DOMAIN r \cap PriceFields = {}

\* The decoded year reads as an integer.
YearReadable(year) == year # "" /\ IsDigits(year)

\* C17: when decode_vin answers a vehicle, estimate_price_from_vin raises
\* nothing; if the vehicle lacks make, model or year, or its year does not
\* read as an integer, the result is an error text without price fields;
\* otherwise it is the estimate of estimate_price for the decoded make, model,
\* year and body class (no mileage, condition good), with the VIN and the
\* vehicle id added.
C17_VinEstimate ==
    (Done("estimate_price_from_vin") /\ frame.raised = "") =>
        LET v == frame.vehicle
        IN  IF v.make = None \/ v.model = None \/ v.year = None
               \/ ~YearReadable(v.year)
            THEN IsErrorResult(ret)
            ELSE \E tie_up \in BOOLEAN :
                     ret = WithVin(estimate_price(v.make, v.model, ToNat(v.year), <<>>,
                                                  "good", v.body_class, now, tie_up),
                                   args.vin, v.vehicle_id)

\* A decoded year that is no integer.
C17_Witness ==
    /\ Done("estimate_price_from_vin")
    /\ frame.raised = ""
    /\ frame.vehicle.make = "TOYOTA"
    /\ frame.vehicle.model = "Camry"
    /\ frame.vehicle.year = "20.5"
    /\ ret.raised = ""
    /\ ret.error = "Invalid year from VIN decode: 20.5"

\* The decode request was not answered with status 200.
DecodeFailed == ~args.nhtsa.reached \/ args.nhtsa.status_code # 200

\* C18: when the VIN decode fails (service not reached, or a status other
\* than 200), estimate_price_from_vin returns an error result: it raises
\* nothing and gives no price.
C18_DecodeFailureSurfaced ==
    (Done("estimate_price_from_vin") /\ DecodeFailed) => IsErrorResult(ret)

EstimateFields ==
    { "make", "model", "year", "mileage", "condition", "low_price", "market_price",
      "high_price", "msrp", "confidence", "source", "notes" }

\* C19: estimate_price never raises for a mileage, condition or body class
\* that is absent, None or unrecognized: with a make and a model it returns
\* a complete estimate.
C19_OptionalFieldsNeverRaise ==
    (Done("estimate_price") /\ args.make # None /\ args.model # None) =>
        /\ ret.raised = ""
        /\ EstimateFields \subseteq DOMAIN ret

NearestHundreds(x) ==
    {r \in {(x \div Money(100)) * Money(100), (x \div Money(100) + 1) * Money(100)} :
        Abs(r - x) <= Money(50) + 16}

\* The product of the reference price and the three multipliers of a frame.
FactorProduct(f) ==
    FMul(FMul(FMul(f.msrp, f.dep_factor), f.mile_adj), f.cond_mult)

\* Toyota Camry 2020, no mileage, condition good, current year 2024.
ScenarioA ==
    /\ args.make = "Toyota" /\ args.model = "Camry" /\ args.year = 2020
    /\ args.mileage = <<>> /\ args.condition = "good" /\ now = 2024

\* C21: the market price of an estimate is reference price x depreciation x
\* mileage multiplier x condition multiplier rounded to the nearest 100; low
\* and high are 0.88 x and 1.12 x that rounded price, each rounded to the
\* nearest 100; the floors 500, 300 and 700 are applied after that. Toyota
\* Camry 2020 without mileage in condition good at 2024 gives 13900, 12200
\* and 15600.
C21_RoundedSpread ==
    Estimated =>
        /\ \E rounded \in NearestHundreds(FactorProduct(frame)) :
               /\ ret.market_price = Max(rounded, Money(500))
               /\ \E low \in NearestHundreds(MulDiv(rounded, 88, 100)) :
                      ret.low_price = Max(low, Money(300))
               /\ \E high \in NearestHundreds(MulDiv(rounded, 112, 100)) :
                      ret.high_price = Max(high, Money(700))
        /\ ScenarioA =>
               /\ ret.market_price = Money(13900)
               /\ ret.low_price = Money(12200)
               /\ ret.high_price = Money(15600)

\* Scenario A has been estimated from the reference price 25250 at age 4.
C21_Witness ==
    /\ Estimated
    /\ ScenarioA
    /\ frame.msrp = Money(25250)
    /\ frame.vehicle_age = 4
    /\ ret.market_price = Money(13900)

\* The note names the provenance tag or the reference price used.
IsProvenanceNote(note) ==
    /\ StartsWith(note, "MSRP ")
    /\ \/ Contains(ret.source, note)
       \/ Contains("$" \o FormatThousands(ret.msrp \div MoneyScale), note)

\* The note gives the depreciation factor and the vehicle age.
IsDepreciationNote(note) ==
    /\ StartsWith(note, "Depreciation factor: " \o FormatFixed2(frame.dep_factor))
    /\ Contains("age: " \o ToString(frame.vehicle_age) \o " years", note)

\* The note compares the mileage with the expected one, "actual vs expected",
\* or says that there is no mileage.
IsMileageNote(note) ==
    IF HasMileage(args.mileage)
    THEN /\ StartsWith(note, "Mileage ")
         /\ Contains(FormatThousands(args.mileage[1]) \o " vs ", note)
         /\ Contains(" expected", note)
    ELSE StartsWith(note, "No mileage provided")

IsConditionNote(note) ==
    /\ StartsWith(note, "Condition adjustment: ")
    /\ Contains(args.condition, note)

\* C22: the notes of every estimate are, in this order, a note on the
\* provenance or reference price, a note on the depreciation factor and the
\* vehicle age, a note on the mileage comparison or its absence, and then a
\* condition note exactly when the condition is not "good" (in any letter
\* case).
C22_NotesInOrder ==
    Estimated =>
        /\ Len(ret.notes) = (IF lower(args.condition) = "good" THEN 3 ELSE 4)
        /\ IsProvenanceNote(ret.notes[1])
        /\ IsDepreciationNote(ret.notes[2])
        /\ IsMileageNote(ret.notes[3])
        /\ Len(ret.notes) = 4 => IsConditionNote(ret.notes[4])

\* An estimate with a mileage comparison and a condition the table does not
\* know: four notes.
C22_Witness ==
    /\ Estimated
    /\ HasMileage(args.mileage)
    /\ args.condition = "mint"
    /\ Len(ret.notes) = 4
    /\ IsConditionNote(ret.notes[4])

\* What the call c returns when made with nothing else running, on the
\* vehicles table as given, and the table it leaves.
AloneFromVin(c, decoded) ==
    [ret |-> estimate_price_from_vin(c.args.vin, decoded, now, c.tie_up),
     table |-> decoded.table]

Alone(c, table) ==
    CASE c.op = "estimate_price" ->
           [ret |-> estimate_price(c.args.make, c.args.model, c.args.year,
                                   c.args.mileage, c.args.condition,
                                   c.args.body_class, now, c.tie_up),
            table |-> table]
      [] c.op = "compare_contract_to_market" ->
           [ret |-> compare_contract_to_market(c.args.sla, c.args.make, c.args.model,
                                               c.args.year, now, c.tie_up, c.tie_up,
                                               c.tie_up),
            table |-> table]
      [] c.op = "estimate_price_from_vin" ->
           AloneFromVin(c, decode_vin(c.args.vin, c.args.nhtsa, table, c.args.db_up))

\* The results of the workers' calls made one after another in the given
\* order, starting on the vehicles table as given.
RECURSIVE OneAfterAnother(_, _, _)
OneAfterAnother(order, table, results) ==
    IF order = <<>> THEN results
    ELSE OneAfterAnother(Tail(order),
                         Alone(workers[Head(order)].call, table).table,
                         [results EXCEPT ![Head(order)] =
                             Alone(workers[Head(order)].call, table).ret])

\* The orders in which the workers' calls can be made one after another.
Orders == {o \in [Workers -> Workers] : \A v, w \in Workers : o[v] = o[w] => v = w}

AllReturned == workers # <<>> /\ \A w \in Workers : workers[w].pc = "done"

\* C23: no call of estimate_price, estimate_price_from_vin or
\* compare_contract_to_market changes MSRP_DATABASE or CATEGORY_MSRP, and
\* calls made at the same time, their steps interleaved in any way, return
\* what they return when made one after another in some order.
C23_TablesReadOnly ==
    /\ msrp_database = MSRP_DATABASE
    /\ category_msrp = CATEGORY_MSRP
    /\ AllReturned =>
           \E order \in Orders :
               \A w \in Workers :
                   workers[w].ret
                       = OneAfterAnother(order, NoVehicles, [v \in Workers |-> NoFrame])[w]

\* Two estimates from different VINs have returned, the second worker's save
\* having come first, and an estimate that read the category table with them
\* is among the calls made.
C23_Witness ==
    /\ AllReturned
    /\ workers[1].call.op = "estimate_price_from_vin"
    /\ workers[2].call.op = "estimate_price_from_vin"
    /\ workers[1].ret.raised = ""
    /\ workers[2].ret.raised = ""
    /\ workers[1].ret.vehicle_id = <<2>>
    /\ workers[2].ret.vehicle_id = <<1>>
    /\ workers[2].ret.source = "category_estimate"

\* The body styles of the category fallback table and their prices in
\* dollars.
BodyStylePrices ==
    { <<"sedan", 28000>>, <<"suv", 35000>>, <<"truck", 38000>>, <<"coupe", 32000>>,
      <<"hatchback", 24000>>, <<"van", 35000>>, <<"convertible", 38000>>,
      <<"wagon", 30000>> }

\* The body styles whose keyword the text contains, whatever its letter case.
StylesIn(body_class) ==
    IF body_class = None THEN {}
    ELSE {s \in BodyStylePrices : Contains(s[1], lower(body_class))}

\* C24: the category fallback price is the price of a body-style keyword that
\* the body-class text contains, in any letter case, and it is the default,
\* 30000, when the body class is absent, empty or contains no keyword.
C24_CategoryPrice ==
    Done("_estimate_msrp_by_category") =>
        IF StylesIn(args.body_class) = {}
        THEN ret.value = 30000
        ELSE \E s \in StylesIn(args.body_class) : ret.value = s[2]

\* The decoder's wording of an SUV, its keyword in capitals, has been priced.
C24_Witness ==
    /\ Done("_estimate_msrp_by_category")
    /\ args.body_class = "Sport Utility Vehicle (SUV)"
    /\ ret.value = 35000

\* The characters of the table's model names, in alphabetical order.
Alphabet == " -0123456789abcdefghijklmnopqrstuvwxyz"

Rank(c) == CHOOSE i \in 1..Len(Alphabet) : CharAt(Alphabet, i) = c

\* a comes before b, or is b, in alphabetical order (both in lower case).
RECURSIVE Precedes(_, _)
Precedes(a, b) ==
    IF a = "" THEN TRUE
    ELSE IF b = "" THEN FALSE
    ELSE IF CharAt(a, 1) # CharAt(b, 1) THEN Rank(CharAt(a, 1)) < Rank(CharAt(b, 1))
    ELSE Precedes(SubSeq(a, 2, Len(a)), SubSeq(b, 2, Len(b)))

\* The model names of the make that match the requested model by containment.
FuzzyCandidates ==
    {MakeData(args.make)[i][1] : i \in
        {k \in 1..Len(MakeData(args.make)) :
            FuzzyMatches(MakeData(args.make)[k][1], args.model)}}

\* C25: when several models of the make match the requested model by
\* containment, the fuzzy step selects the match that comes first in
\* alphabetical order of the model names, whatever the order of the table.
C25_FuzzyAlphabetical ==
    (Estimated /\ StartsWith(ret.source, "msrp_database_fuzzy_")) =>
        \E name \in FuzzyCandidates :
            /\ ret.source \in {"msrp_database_fuzzy_" \o name,
                                "msrp_database_fuzzy_" \o name \o "_extrapolated"}
            /\ \A other \in FuzzyCandidates : Precedes(lower(name), lower(other))

\* The label the thresholds give to a deviation counted in tenths of a
\* percent.
LabelOf(tenths) ==
    IF tenths > 150 THEN "overpriced"
    ELSE IF tenths > 50 THEN "slightly_above_market"
    ELSE IF tenths < -100 THEN "good_deal"
    ELSE "fair"

\* C26: in every available comparison the assessment is the label that the
\* thresholds (> 15, > 5, < -10, otherwise fair) give to the reported
\* deviation_percent, the value rounded to one decimal: none reports 15.0 with
\* "overpriced", 5.0 with "slightly_above_market" or -10.0 with "good_deal".
C26_LabelOfReportedDeviation ==
    (Done("compare_contract_to_market") /\ ret.raised = "" /\ ret.comparison_available) =>
        ret.assessment = LabelOf(ret.deviation_percent)

\* The expected mileage _mileage_adjustment works with: 12,000 a year, a
\* vehicle of age 0 counted as one year old.
ExpectedByAdjuster(vehicle_age) == Max(vehicle_age, 1) * 12000

\* C27: for every estimate with a positive mileage the mileage note agrees
\* with the adjustment applied: it says "above average" exactly when the
\* mileage multiplier is below 1, and the expected mileage it prints is the
\* one the adjustment used, also at age 0, where that is 12,000.
C27_NoteAgreesWithAdjustment ==
    (Estimated /\ HasMileage(args.mileage)) =>
        /\ Contains("above average", ret.notes[3]) <=> frame.mile_adj < FactorScale
        /\ Contains(" vs " \o FormatThousands(ExpectedByAdjuster(frame.vehicle_age))
                    \o " expected", ret.notes[3])

\* The mileages at or below the one of the call, 0 among them.
MileagesUpTo(mileage) == {m \in Mileages : m # <<>> /\ m[1] >= 0 /\ m[1] <= mileage}

\* C28: with make, model, year, condition, body class and current year
\* fixed, market_price does not increase with the mileage over the
\* non-negative mileages, 0 included: the estimate at a mileage at or below
\* the one of the call is at least the estimate returned.
C28_MileageMonotone ==
    (Estimated /\ args.mileage # <<>> /\ args.mileage[1] >= 0) =>
        \A m \in MileagesUpTo(args.mileage[1]) :
            \E tie_up \in BOOLEAN :
                EstimateFrame(args.make, args.model, args.year, m, args.condition,
                              args.body_class, now, tie_up).market_price
                    >= ret.market_price

\* The requests that were answered with a response.
Answered == { w \in Workers : workers[w].pc = "done" /\ workers[w].stored_after # <<>> }

\* C29: for every chat request that was answered, the chat history handed to
\* the responder is the thread's messages stored before the request's own
\* user message, and the returned message_count is the thread's message
\* count after the reply is saved, also when two requests on the same thread
\* interleave.
C29_HistoryAndCountOfThread ==
    \A w \in Answered :
        /\ workers[w].handed = workers[w].stored_before
        /\ workers[w].ret.message_count = Len(workers[w].stored_after)

\* The requests that named a thread id that does not exist and are done.
MissingThreadDone ==
    { w \in Workers : /\ workers[w].pc = "done"
                      /\ ThreadRow(negotiation_threads, workers[w].request.thread_id) = <<>> }

\* C30: a chat request that names a thread id that does not exist returns
\* the error 'Negotiation thread not found', and the stored negotiation
\* messages hold no message of it.
C30_MissingThreadNotFound ==
    \A w \in MissingThreadDone :
        /\ workers[w].ret = [error |-> "Negotiation thread not found"]
        /\ \A i \in 1..Len(negotiation_messages.rows) :
               negotiation_messages.rows[i].thread_id # workers[w].request.thread_id

====
